---- MODULE Spec2Model ----
(***************************************************************************)
(* Dilay's adaptive remeshing kernel (lib/src/tool/sculpt/util/action.cpp) *)
(* as a state machine over an indexed triangle mesh.                       *)
(*                                                                         *)
(* Geometry.  Vertex positions are integers on one axis, in units of       *)
(* minEdgeLength; every vertex normal is the same unit vector orthogonal   *)
(* to that axis.  On such input the code computes: distance2 = (a-b)^2;    *)
(* Util::between and getSplitPosition (colinear normals) = the midpoint;   *)
(* smooth: delta is orthogonal to the normal, so tangentialPos = avgPos,   *)
(* and every triangle is degenerate (n = 0, b1 and b2 are NaN, every       *)
(* comparison is false), so the new position is tangentialPos.             *)
(* Indices are 1-based here (0-based in the code); 0 is invalidIndex.      *)
(***************************************************************************)
EXTENDS Integers, Sequences, FiniteSets, TLC

\* ------------------------------------------------------------------------
\* Bounds of the model
\* ------------------------------------------------------------------------
MaxCalls == 2

\* minEdgeLength (action.cpp:22), the unit of length of the model
MinEdgeLength == 1

\* ------------------------------------------------------------------------
\* Sequence helpers
\* ------------------------------------------------------------------------
Range(s) == {s[k] : k \in 1..Len(s)}

Contains(s, x) == \E k \in 1..Len(s) : s[k] = x

Reverse(s) == [k \in 1..Len(s) |-> s[Len(s) + 1 - k]]

Last(s) == s[Len(s)]

Front(s) == SubSeq(s, 1, Len(s) - 1)

\* s without the first occurrence of x
RemoveOne(s, x) ==
  IF Contains(s, x)
  THEN LET k == CHOOSE j \in 1..Len(s) : s[j] = x /\ \A h \in 1..(j - 1) : s[h] # x
       IN  SubSeq(s, 1, k - 1) \o SubSeq(s, k + 1, Len(s))
  ELSE s

RECURSIVE RemoveN(_, _, _)
RemoveN(s, x, n) == IF n = 0 THEN s ELSE RemoveN(RemoveOne(s, x), x, n - 1)

\* s with the later repetitions of an element dropped
Dedup(s) ==
  LET first == {k \in 1..Len(s) : \A j \in 1..(k - 1) : s[j] # s[k]}
  IN  [i \in 1..Cardinality(first) |->
         s[CHOOSE k \in first : Cardinality({j \in first : j < k}) = i - 1]]

\* the elements of a set in ascending order of their (distinct) keys
SortAscBy(S, Key(_)) ==
  [i \in 1..Cardinality(S) |->
     CHOOSE x \in S : Cardinality({y \in S : Key(y) < Key(x)}) = i - 1]

SortAsc(S) == SortAscBy(S, LAMBDA x : x)

\* a loop over the sequence s: Step(acc, x) is its body, st its state
RECURSIVE FoldLoop(_, _)
FoldLoop(Step(_, _), st) ==
  IF st.rest = <<>> THEN st.acc
  ELSE FoldLoop(Step, [acc |-> Step(st.acc, Head(st.rest)), rest |-> Tail(st.rest)])

Fold(Step(_, _), init, s) == FoldLoop(Step, [acc |-> init, rest |-> s])

SumSeq(s) == Fold(LAMBDA acc, x : acc + x, 0, s)

Abs(x) == IF x < 0 THEN -x ELSE x

Max(a, b) == IF a < b THEN b ELSE a

Min(a, b) == IF a < b THEN a ELSE b

\* ------------------------------------------------------------------------
\* Indexed mesh store (DynamicMesh)
\*   face[f]      = <<i1,i2,i3>>, or <<>> when f is free
\*   adjacent[v]  = the faces referencing v, in the order they were added
\*   free[v]      = v is a free vertex;  pos[v] = its position
\*   freeFaceIndices, freeVertexIndices: recycled last-in first-out
\* ------------------------------------------------------------------------
EmptyMesh ==
  [face |-> <<>>, adjacent |-> <<>>, free |-> <<>>, pos |-> <<>>,
   freeFaceIndices |-> <<>>, freeVertexIndices |-> <<>>]

NumFaceSlots(m) == Len(m.face)

NumVertexSlots(m) == Len(m.free)

IsValidFaceIndex(m, f) == f \in 1..Len(m.face)

IsFreeFace(m, f) == m.face[f] = <<>>

IsFreeVertex(m, v) == m.free[v]

LiveFaces(m) == {f \in 1..Len(m.face) : m.face[f] # <<>>}

LiveVertices(m) == {v \in 1..Len(m.free) : ~m.free[v]}

VertexIndices(m, f) == m.face[f]

\* the vertices a region gets from one of its indices: none from an index
\* that is free (or was never allocated)
FaceVertices(m, f) == IF f \in 1..Len(m.face) THEN m.face[f] ELSE <<>>

AdjacentFaces(m, v) == m.adjacent[v]

Valence(m, v) == Len(m.adjacent[v])

Vertex(m, v) == m.pos[v]

SetVertex(m, v, p) == [m EXCEPT !.pos[v] = p]

IsEmpty(m) == LiveFaces(m) = {}

Reset(m) == EmptyMesh

Occurrences(t, v) ==
  (IF t[1] = v THEN 1 ELSE 0) + (IF t[2] = v THEN 1 ELSE 0) + (IF t[3] = v THEN 1 ELSE 0)

\* the index addFace will return
NextFaceIndex(m) ==
  IF m.freeFaceIndices = <<>> THEN Len(m.face) + 1 ELSE Last(m.freeFaceIndices)

AddFace(m, i1, i2, i3) ==
  LET f == NextFaceIndex(m)
      t == <<i1, i2, i3>>
  IN  [m EXCEPT
        !.face = IF f > Len(m.face) THEN Append(@, t) ELSE [@ EXCEPT ![f] = t],
        !.freeFaceIndices = IF @ = <<>> THEN @ ELSE Front(@),
        !.adjacent = [v \in 1..Len(@) |->
                        @[v] \o (IF v = i1 THEN <<f>> ELSE <<>>)
                             \o (IF v = i2 THEN <<f>> ELSE <<>>)
                             \o (IF v = i3 THEN <<f>> ELSE <<>>)]]

DeleteFace(m, f) ==
  LET t == m.face[f]
  IN  [m EXCEPT
        !.face[f] = <<>>,
        !.freeFaceIndices = Append(@, f),
        !.adjacent = [v \in 1..Len(@) |-> RemoveN(@[v], f, Occurrences(t, v))]]

\* the index addVertex will return
NextVertexIndex(m) ==
  IF m.freeVertexIndices = <<>> THEN Len(m.free) + 1 ELSE Last(m.freeVertexIndices)

AddVertex(m, p) ==
  LET v == NextVertexIndex(m)
  IN  IF v > Len(m.free)
      THEN [m EXCEPT !.free = Append(@, FALSE), !.pos = Append(@, p),
                     !.adjacent = Append(@, <<>>)]
      ELSE [m EXCEPT !.free[v] = FALSE, !.pos[v] = p, !.adjacent[v] = <<>>,
                     !.freeVertexIndices = Front(@)]

DeleteVertex(m, v) ==
  [m EXCEPT !.free[v] = TRUE, !.adjacent[v] = <<>>,
            !.freeVertexIndices = Append(@, v)]

\* a mesh built from a list of faces and a list of positions
AddFaceList(m, ts) == Fold(LAMBDA acc, t : AddFace(acc, t[1], t[2], t[3]), m, ts)

AddVertexList(m, ps) == Fold(LAMBDA acc, p : AddVertex(acc, p), m, ps)

MakeMesh(ps, ts) == AddFaceList(AddVertexList(EmptyMesh, ps), ts)

\* directed edges of a face
DirectedEdges(t) == {<<t[1], t[2]>>, <<t[2], t[3]>>, <<t[3], t[1]>>}

\* checkConsistency: every edge is shared by exactly two faces that traverse it
\* in opposite order, no face repeats a vertex, a live face references live
\* vertices, every live vertex has valence >= 3, and the adjacency lists agree
\* with the face table
CheckConsistency(m) ==
  /\ \A f \in LiveFaces(m) :
       LET t == m.face[f]
       IN  /\ t[1] # t[2] /\ t[1] # t[3] /\ t[2] # t[3]
           /\ \A k \in 1..3 : t[k] \in 1..Len(m.free) /\ ~m.free[t[k]]
           /\ \A e \in DirectedEdges(t) :
                /\ Cardinality({g \in LiveFaces(m) : e \in DirectedEdges(m.face[g])}) = 1
                /\ Cardinality({g \in LiveFaces(m) :
                                  <<e[2], e[1]>> \in DirectedEdges(m.face[g])}) = 1
  /\ \A v \in LiveVertices(m) :
       /\ Valence(m, v) >= 3
       /\ Range(m.adjacent[v]) = {f \in LiveFaces(m) : Occurrences(m.face[f], v) > 0}
       /\ Len(m.adjacent[v]) = Cardinality(Range(m.adjacent[v]))

\* ------------------------------------------------------------------------
\* Face-set with staging (DynamicFaces): a committed view and a staging
\* buffer, both kept as duplicate-free sequences in insertion order
\* ------------------------------------------------------------------------
EmptyFaces == [committed |-> <<>>, uncommitted |-> <<>>]

FacesInsert(fs, i) ==
  IF Contains(fs.uncommitted, i) THEN fs
  ELSE [fs EXCEPT !.uncommitted = Append(@, i)]

FacesInsertAll(fs, is) == Fold(LAMBDA acc, i : FacesInsert(acc, i), fs, is)

FacesCommit(fs) ==
  [committed |-> Dedup(fs.committed \o fs.uncommitted), uncommitted |-> <<>>]

FacesContains(fs, i) == Contains(fs.committed, i) \/ Contains(fs.uncommitted, i)

FacesFilter(fs, Keep(_)) == [fs EXCEPT !.committed = SelectSeq(@, Keep)]

NumElements(fs) == Len(fs.committed)

Indices(fs) == fs.committed

Uncommitted(fs) == fs.uncommitted

HasUncomitted(fs) == fs.uncommitted # <<>>

\* forEachVertex(faces, fn): the unique vertices of the committed faces, in
\* the order of their first visit
VerticesOf(m, fseq) ==
  Dedup(Fold(LAMBDA acc, f : acc \o FaceVertices(m, f), <<>>, fseq))

ForEachVertex(m, fs) == VerticesOf(m, fs.committed)

\* forEachFace(fn): the live faces by ascending index
ForEachFace(m) == SortAsc(LiveFaces(m))

\* every committed index is a live face (what vertexIndices requires)
AllLive(m, fs) ==
  \A k \in 1..Len(fs.committed) :
    IsValidFaceIndex(m, fs.committed[k]) /\ ~IsFreeFace(m, fs.committed[k])

\* ------------------------------------------------------------------------
\* action.cpp: keys and temporary batches
\* ------------------------------------------------------------------------
makeUiKey(i1, i2) == <<Min(i1, i2), Max(i1, i2)>>

\* the order in which an unordered_set holding the elements of s (given in
\* insertion order) is iterated: insertion order, its reverse, ascending or
\* descending, as the selector says
IterOrderBy(s, sel, Key(_)) ==
  CASE sel = 1 -> s
    [] sel = 2 -> Reverse(s)
    [] sel = 3 -> SortAscBy(Range(s), Key)
    [] OTHER   -> Reverse(SortAscBy(Range(s), Key))

IterOrder(s, sel) == IterOrderBy(s, sel, LAMBDA x : x)

IterSelectors == 1..4

EmptyNewFaces == [vertexIndices |-> <<>>, facesToDelete |-> <<>>]

NewFacesAddFace(nf, i1, i2, i3) ==
  [nf EXCEPT !.vertexIndices = Append(@, <<i1, i2, i3>>)]

NewFacesDeleteFace(nf, i) ==
  IF Contains(nf.facesToDelete, i) THEN nf
  ELSE [nf EXCEPT !.facesToDelete = Append(@, i)]

\* applyToMesh without its loop over facesToDelete
DeleteNoFace(m, fseq) == m

DeleteFaceList(m, fseq) == Fold(LAMBDA acc, f : DeleteFace(acc, f), m, fseq)

\* the loop of applyToMesh over vertexIndices; k counts the triples done
ApplyAdd(m, fs, ts, nDel) ==
  Fold(LAMBDA acc, t :
         [mesh |-> AddFace(acc.mesh, t[1], t[2], t[3]),
          faces |-> IF 3 * acc.k >= nDel * 3
                    THEN FacesInsert(acc.faces, NextFaceIndex(acc.mesh))
                    ELSE acc.faces,
          k |-> acc.k + 1],
       [mesh |-> m, faces |-> fs, k |-> 0], ts)

\* NewFaces::applyToMesh; order is the iteration order of facesToDelete
ApplyToMeshEmptyGuard(m) == IsEmpty(m) = FALSE

ApplyToMesh(m, fs, nf, order) ==
  LET m1 == DeleteFaceList(m, order)
  IN  IF ApplyToMeshEmptyGuard(m1)
      THEN LET r == ApplyAdd(m1, fs, nf.vertexIndices, Len(nf.facesToDelete))
           IN  [mesh |-> r.mesh, faces |-> r.faces,
                ret |-> Len(nf.facesToDelete) <= Len(nf.vertexIndices)]
      ELSE [mesh |-> m1, faces |-> fs, ret |-> FALSE]

\* ------------------------------------------------------------------------
\* action.cpp: findAdjacent
\* ------------------------------------------------------------------------
NoAdjacent == [leftFace |-> 0, leftVertex |-> 0, rightFace |-> 0, rightVertex |-> 0]

FindAdjacentLoop(m, e1, e2, r, a) ==
  LET t == VertexIndices(m, a)
  IN  IF e1 = t[1] /\ e2 = t[2]
        THEN [r EXCEPT !.leftFace = a, !.leftVertex = t[3]]
      ELSE IF e1 = t[2] /\ e2 = t[1]
        THEN [r EXCEPT !.rightFace = a, !.rightVertex = t[3]]
      ELSE IF e1 = t[2] /\ e2 = t[3]
        THEN [r EXCEPT !.leftFace = a, !.leftVertex = t[1]]
      ELSE IF e1 = t[3] /\ e2 = t[2]
        THEN [r EXCEPT !.rightFace = a, !.rightVertex = t[1]]
      ELSE IF e1 = t[3] /\ e2 = t[1]
        THEN [r EXCEPT !.leftFace = a, !.leftVertex = t[2]]
      ELSE IF e1 = t[1] /\ e2 = t[3]
        THEN [r EXCEPT !.rightFace = a, !.rightVertex = t[2]]
      ELSE r

FindAdjacent(m, e1, e2) ==
  Fold(LAMBDA r, a : FindAdjacentLoop(m, e1, e2, r, a), NoAdjacent, AdjacentFaces(m, e1))

\* the four assertions that end findAdjacent
FindAdjacentAsserts(r) ==
  r.leftFace # 0 /\ r.leftVertex # 0 /\ r.rightFace # 0 /\ r.rightVertex # 0

\* ------------------------------------------------------------------------
\* action.cpp: relaxEdges
\* ------------------------------------------------------------------------
\* pre and post of isRelaxable
RelaxPre(m, edge, leftVertex, rightVertex) ==
  Abs(Valence(m, edge[1]) - 6) + Abs(Valence(m, edge[2]) - 6)
    + Abs(Valence(m, leftVertex) - 6) + Abs(Valence(m, rightVertex) - 6)

\* post that forgets the face each opposite vertex gains
RelaxPostEdgeOnly(m, edge, leftVertex, rightVertex) ==
  Abs(Valence(m, edge[1]) - 6 - 1) + Abs(Valence(m, edge[2]) - 6 - 1)
    + Abs(Valence(m, leftVertex) - 6) + Abs(Valence(m, rightVertex) - 6)

RelaxPost(m, edge, leftVertex, rightVertex) ==
  Abs(Valence(m, edge[1]) - 6 - 1) + Abs(Valence(m, edge[2]) - 6 - 1)
    + Abs(Valence(m, leftVertex) - 6 + 1) + Abs(Valence(m, rightVertex) - 6 + 1)

IsRelaxable(m, edge, leftVertex, rightVertex) ==
  /\ Valence(m, edge[1]) > 3
  /\ Valence(m, edge[2]) > 3
  /\ RelaxPost(m, edge, leftVertex, rightVertex) < RelaxPre(m, edge, leftVertex, rightVertex)

\* a vertex whose edges relaxEdges collects
IsPoleAbove3(m, i) == Valence(m, i) > 3

IsPole(m, i) == Valence(m, i) > 6

\* the edges the forEachVertex pass of relaxEdges inserts into edgeSet, in the
\* order of their insertion
CollectEdges(m, fs) ==
  Dedup(Fold(LAMBDA acc, i :
               IF IsPole(m, i)
               THEN Fold(LAMBDA es, a :
                           LET t == SelectSeq(VertexIndices(m, a), LAMBDA j : j # i)
                           IN  es \o [k \in 1..Len(t) |-> makeUiKey(i, t[k])],
                         acc, AdjacentFaces(m, i))
               ELSE acc,
             <<>>, ForEachVertex(m, fs)))

\* a flip that adds the first of its two faces only
FlipEdgeOneFace(m, edge, r) ==
  AddFace(DeleteFace(DeleteFace(m, r.leftFace), r.rightFace),
          r.leftVertex, edge[1], r.rightVertex)

\* a flip that adds its two faces in the other order
FlipEdgeRightFirst(m, edge, r) ==
  LET m1 == DeleteFace(DeleteFace(m, r.leftFace), r.rightFace)
      m2 == AddFace(m1, r.rightVertex, edge[2], r.leftVertex)
  IN  AddFace(m2, r.leftVertex, edge[1], r.rightVertex)

\* the body of the if in the loop of relaxEdges: one flip
FlipEdge(m, edge, r) ==
  LET m1 == DeleteFace(DeleteFace(m, r.leftFace), r.rightFace)
      m2 == AddFace(m1, r.leftVertex, edge[1], r.rightVertex)
  IN  AddFace(m2, r.rightVertex, edge[2], r.leftVertex)

\* the two assertions after the flip: the freed indices are reused
FlipAsserts(m, edge, r) ==
  LET m1 == DeleteFace(DeleteFace(m, r.leftFace), r.rightFace)
      m2 == AddFace(m1, r.leftVertex, edge[1], r.rightVertex)
  IN  NextFaceIndex(m1) = r.rightFace /\ NextFaceIndex(m2) = r.leftFace

\* ------------------------------------------------------------------------
\* action.cpp: deleteValence3Vertex and collapseEdge
\* A result is [ok, mesh, faces, err]: err names a failed assertion ("" if
\* none), faces is the callee's face set after the call.
\* ------------------------------------------------------------------------
Result(ok, m, fs, err) == [ok |-> ok, mesh |-> m, faces |-> fs, err |-> err]

\* the test deleteValence3Vertex makes before it edits the mesh (line 667)
NeighboursAny(m, newI1, newI2, newI3) == TRUE

NeighboursAbove3(m, newI1, newI2, newI3) ==
  Valence(m, newI1) > 3 /\ Valence(m, newI2) > 3 /\ Valence(m, newI3) > 3

DeleteValence3Vertex(m, i, fs) ==
  IF IsFreeVertex(m, i) \/ Valence(m, i) # 3
  THEN Result(FALSE, m, fs, "deleteValence3Vertex: valence")
  ELSE
  LET adj1 == AdjacentFaces(m, i)[1]
      adj2 == AdjacentFaces(m, i)[2]
      adj3 == AdjacentFaces(m, i)[3]
      t1 == VertexIndices(m, adj1)
      t2 == VertexIndices(m, adj2)
      newI1 == IF i = t1[1] THEN t1[2] ELSE IF i = t1[2] THEN t1[3] ELSE t1[1]
      newI2 == IF i = t1[1] THEN t1[3] ELSE IF i = t1[2] THEN t1[1] ELSE t1[2]
      newI3 == IF t2[1] # newI1 /\ t2[1] # newI2 THEN t2[1]
               ELSE IF t2[2] # newI1 /\ t2[2] # newI2 THEN t2[2]
               ELSE IF t2[3] # newI1 /\ t2[3] # newI2 THEN t2[3]
               ELSE 0
  IN  IF Occurrences(t1, i) = 0 \/ newI3 = 0
        THEN Result(FALSE, m, fs, "deleteValence3Vertex: impossible")
      ELSE IF newI1 = newI2 \/ newI1 = newI3 \/ newI2 = newI3
        THEN Result(FALSE, m, fs, "deleteValence3Vertex: newI")
      ELSE IF NeighboursAbove3(m, newI1, newI2, newI3)
        THEN LET m1 == DeleteVertex(
                         DeleteFace(DeleteFace(DeleteFace(m, adj1), adj2), adj3), i)
             IN  Result(TRUE, AddFace(m1, newI1, newI2, newI3),
                        FacesInsert(fs, NextFaceIndex(m1)), "")
      ELSE Result(FALSE, m, fs, "")

\* isValidEdge, asserted in debug builds
IsValidEdge(m, i1, i2) ==
  /\ i1 # i2
  /\ ~IsFreeVertex(m, i1)
  /\ ~IsFreeVertex(m, i2)
  /\ \E k \in 1..Valence(m, i1) :
       Occurrences(VertexIndices(m, AdjacentFaces(m, i1)[k]), i2) > 0

\* addFaces (newI, i1, i2): [nf, ok], ok false when one of its assertions fails
AddFacesLoop(m, newI, i1, i2, acc, a) ==
  LET t == VertexIndices(m, a)
      a1IsAdjacent == t[1] # i1 /\ t[1] # i2
      a2IsAdjacent == t[2] # i1 /\ t[2] # i2
      a3IsAdjacent == t[3] # i1 /\ t[3] # i2
      ok == /\ (a1IsAdjacent \/ a2IsAdjacent \/ a3IsAdjacent)
            /\ (~a1IsAdjacent \/ ~a2IsAdjacent \/ ~a3IsAdjacent)
      nf1 == IF a1IsAdjacent /\ a2IsAdjacent
               THEN NewFacesAddFace(acc.nf, newI, t[1], t[2])
             ELSE IF a2IsAdjacent /\ a3IsAdjacent
               THEN NewFacesAddFace(acc.nf, newI, t[2], t[3])
             ELSE IF a3IsAdjacent /\ a1IsAdjacent
               THEN NewFacesAddFace(acc.nf, newI, t[3], t[1])
             ELSE acc.nf
  IN  [nf |-> NewFacesDeleteFace(nf1, a), ok |-> acc.ok /\ ok]

AddFaces(m, newI, i1, i2, acc) ==
  Fold(LAMBDA c, a : AddFacesLoop(m, newI, i1, i2, c, a), acc, AdjacentFaces(m, i1))

GetSuccessor(m, i, a) ==
  LET t == VertexIndices(m, a)
  IN  IF i = t[1] THEN t[2] ELSE IF i = t[2] THEN t[3] ELSE t[1]

NumCommonAdjacentVertices(m, i1, i2) ==
  Cardinality({<<k1, k2>> \in (1..Valence(m, i1)) \X (1..Valence(m, i2)) :
                 /\ GetSuccessor(m, i1, AdjacentFaces(m, i1)[k1]) # i2
                 /\ GetSuccessor(m, i1, AdjacentFaces(m, i1)[k1])
                      = GetSuccessor(m, i2, AdjacentFaces(m, i2)[k2])})

\* Util::between
Between(p1, p2) == (p1 + p2) \div 2

\* the rejections of the general case: opposite vertices
CollapseRejected(m, leftVertex, rightVertex) ==
  \/ leftVertex = rightVertex
  \/ Valence(m, leftVertex) = 3
  \/ Valence(m, rightVertex) = 3

\* the general case of collapseEdge, from numCommonAdjacentVertices () == 2 on;
\* sel picks the iteration order of newFaces.facesToDelete
CollapseGeneral(m, i1, i2, fs, sel) ==
  LET v1 == Valence(m, i1)
      v2 == Valence(m, i2)
      newI == NextVertexIndex(m)
      m1 == AddVertex(m, Between(Vertex(m, i1), Vertex(m, i2)))
      a1 == AddFaces(m1, newI, i1, i2, [nf |-> EmptyNewFaces, ok |-> TRUE])
      a2 == AddFaces(m1, newI, i2, i1, a1)
      ap == ApplyToMesh(m1, fs, a2.nf, IterOrder(a2.nf.facesToDelete, sel))
      m2 == DeleteVertex(DeleteVertex(ap.mesh, i1), i2)
  IN  IF ~a2.ok THEN Result(FALSE, m, fs, "collapseEdge: addFaces")
      ELSE IF AdjacentFaces(ap.mesh, i1) # <<>> \/ AdjacentFaces(ap.mesh, i2) # <<>>
        THEN Result(FALSE, ap.mesh, ap.faces, "collapseEdge: adjacentFaces not empty")
      ELSE IF Valence(m2, newI) # v1 + v2 - 4
        THEN Result(FALSE, m2, ap.faces, "collapseEdge: valence (newI)")
      ELSE Result(TRUE, m2, ap.faces, "")

\* the surviving end written whether deleteValence3Vertex succeeded or not
MoveSurvivorAlways(d, i, newPos) ==
  Result(d.ok, SetVertex(d.mesh, i, newPos), d.faces, d.err)

\* what follows deleteValence3Vertex in collapseEdge (lines 790-798 and
\* 802-810): the surviving end moves to newPos when the removal succeeded
MoveSurvivor(d, i, newPos) ==
  IF d.ok THEN Result(TRUE, SetVertex(d.mesh, i, newPos), d.faces, "") ELSE d

CollapseEdge(m, i1, i2, fs, sel) ==
  LET v1 == Valence(m, i1)
      v2 == Valence(m, i2)
      newPos == Between(Vertex(m, i1), Vertex(m, i2))
      r == FindAdjacent(m, i1, i2)
  IN  IF v1 < 3 \/ v2 < 3 THEN Result(FALSE, m, fs, "collapseEdge: valence")
      ELSE IF ~IsValidEdge(m, i1, i2) THEN Result(FALSE, m, fs, "collapseEdge: isValidEdge")
      ELSE IF v1 = 3
        THEN MoveSurvivor(DeleteValence3Vertex(m, i1, fs), i2, newPos)
      ELSE IF v2 = 3
        THEN MoveSurvivor(DeleteValence3Vertex(m, i2, fs), i1, newPos)
      ELSE IF ~FindAdjacentAsserts(r) THEN Result(FALSE, m, fs, "findAdjacent")
      ELSE IF Valence(m, r.leftVertex) < 3 \/ Valence(m, r.rightVertex) < 3
        THEN Result(FALSE, m, fs, "collapseEdge: valence (opposite)")
      ELSE IF CollapseRejected(m, r.leftVertex, r.rightVertex) THEN Result(FALSE, m, fs, "")
      ELSE IF NumCommonAdjacentVertices(m, i1, i2) = 2
        THEN CollapseGeneral(m, i1, i2, fs, sel)
      ELSE Result(FALSE, m, fs, "")

\* the predicates of collapseEdgesByLength and collapseAllEdges:
\* "len" holds of an edge when distance2 * den < num
Distance2(m, i1, i2) == (Vertex(m, i1) - Vertex(m, i2)) * (Vertex(m, i1) - Vertex(m, i2))

IsCollapsable(m, pr, i1, i2) == Distance2(m, i1, i2) * pr.den < pr.num

DoCollapse(m, pr, i1, i2) == pr.kind = "all" \/ IsCollapsable(m, pr, i1, i2)

PredAll == [kind |-> "all", num |-> 0, den |-> 1]

PredLength(num, den) == [kind |-> "len", num |-> num, den |-> den]

\* ------------------------------------------------------------------------
\* Brush (SculptBrush): centre and radius of the sphere, mode, intensity as
\* the fraction inum/iden, subdivThreshold, and the stroke's displacement
\* ------------------------------------------------------------------------
FaceMin(m, f) ==
  LET t == VertexIndices(m, f) IN Min(Vertex(m, t[1]), Min(Vertex(m, t[2]), Vertex(m, t[3])))

FaceMax(m, f) ==
  LET t == VertexIndices(m, f) IN Max(Vertex(m, t[1]), Max(Vertex(m, t[2]), Vertex(m, t[3])))

\* IntersectionUtil::intersects (sphere, face)
Intersects(m, b, f) ==
  FaceMax(m, f) >= b.center - b.radius /\ FaceMin(m, f) <= b.center + b.radius

\* sphere.contains (face): all three vertices in the closed ball
SphereContains(m, b, f) ==
  FaceMin(m, f) >= b.center - b.radius /\ FaceMax(m, f) <= b.center + b.radius

GetAffectedFaces(m, b) ==
  [committed |-> SelectSeq(ForEachFace(m), LAMBDA f : Intersects(m, b, f)),
   uncommitted |-> <<>>]

\* brush.sculpt (faces): every vertex of the faces that lies in the sphere
\* moves towards the centre by at most b.pull
SculptVertices(m, b, v) ==
  LET p == Vertex(m, v)
      q == IF Abs(p - b.center) > b.radius THEN p
           ELSE IF p < b.center THEN Min(b.center, p + b.pull)
           ELSE Max(b.center, p - b.pull)
  IN  SetVertex(m, v, q)

BrushSculpt(m, b, fs) ==
  Fold(LAMBDA acc, v : SculptVertices(acc, b, v), m, ForEachVertex(m, fs))

\* averageEdgeLengthSqr (faces) as the fraction num/den
EdgeLengthSqrSum(m, fs) ==
  SumSeq([k \in 1..Len(fs.committed) |->
            LET t == VertexIndices(m, fs.committed[k])
            IN  Distance2(m, t[1], t[2]) + Distance2(m, t[1], t[3]) + Distance2(m, t[2], t[3])])

EdgeLengthCount(fs) == 3 * Len(fs.committed)

\* ------------------------------------------------------------------------
\* action.cpp: region expansion
\* ------------------------------------------------------------------------
\* the three loops over adjacentFaces (i1), (i2), (i3) of a face of the ring
InsertAdjacent(m, fs, as) ==
  Fold(LAMBDA acc, a : IF FacesContains(acc, a) = FALSE THEN FacesInsert(acc, a) ELSE acc,
       fs, as)

FaceNeighbourhood(m, i) ==
  LET t == FaceVertices(m, i)
  IN  IF t = <<>> THEN <<>>
      ELSE AdjacentFaces(m, t[1]) \o AdjacentFaces(m, t[2]) \o AdjacentFaces(m, t[3])

ExtendRing(m, fs, is) ==
  Fold(LAMBDA acc, i : InsertAdjacent(m, acc, FaceNeighbourhood(m, i)), fs, is)

\* extendDomain without the commit that ends a ring
ExtendDomainNoCommit(m, fs, numRings) == ExtendRing(m, fs, fs.committed)

ExtendDomain(m, fs, numRings) ==
  Fold(LAMBDA acc, ring : FacesCommit(ExtendRing(m, acc, acc.committed)),
       fs, [ring \in 1..numRings |-> ring])

\* the frontier loop of extendAndFilterDomain: [faces, extendedFrontier]
ExtendFrontierAdjacent(m, acc, frontier, as) ==
  Fold(LAMBDA c, a :
         IF FacesContains(c.faces, a) = FALSE /\ ~Contains(frontier, a)
         THEN [faces |-> FacesInsert(c.faces, a),
               extendedFrontier |-> Dedup(Append(c.extendedFrontier, a))]
         ELSE c,
       acc, as)

ExtendFrontier(m, acc, frontier, is) ==
  Fold(LAMBDA c, i : ExtendFrontierAdjacent(m, c, frontier, FaceNeighbourhood(m, i)),
       acc, is)

ExtendFrontierRings(m, fs, frontier, numRings, sel) ==
  Fold(LAMBDA c, ring :
         LET r == ExtendFrontier(m, [faces |-> c.faces, extendedFrontier |-> <<>>],
                                 c.frontier, IterOrder(c.frontier, sel))
         IN  [faces |-> FacesCommit(r.faces), frontier |-> r.extendedFrontier],
       [faces |-> fs, frontier |-> frontier], [ring \in 1..numRings |-> ring]).faces

\* the filter alone, without the rings grown from the frontier
FilterDomainOnly(m, b, fs, numRings, sel) ==
  FacesFilter(fs, LAMBDA i : Intersects(m, b, i))

ExtendAndFilterDomain(m, b, fs, numRings, sel) ==
  LET kept == FacesFilter(fs, LAMBDA i : Intersects(m, b, i))
      frontier == SelectSeq(kept.committed, LAMBDA i : SphereContains(m, b, i) = FALSE)
  IN  ExtendFrontierRings(m, kept, frontier, numRings, sel)

ExtendPoles(m, fs, vs) ==
  Fold(LAMBDA acc, v :
         IF IsPole(m, v) THEN InsertAdjacent(m, acc, AdjacentFaces(m, v)) ELSE acc,
       fs, vs)

ExtendDomainByPoles(m, fs) == FacesCommit(ExtendPoles(m, fs, ForEachVertex(m, fs)))

\* ------------------------------------------------------------------------
\* action.cpp: splitEdges and triangulate
\* newV (NewVertices::edgeMap) is a function from edge keys to vertices
\* ------------------------------------------------------------------------
EmptyNewVertices == <<>>

HasVertex(newV, i1, i2) == makeUiKey(i1, i2) \in DOMAIN newV

FindVertex(newV, i1, i2) ==
  IF HasVertex(newV, i1, i2) THEN newV[makeUiKey(i1, i2)] ELSE 0

InsertInEdge(newV, i1, i2, i3) ==
  [k \in DOMAIN newV \cup {makeUiKey(i1, i2)} |->
     IF k = makeUiKey(i1, i2) THEN i3 ELSE newV[k]]

\* getSplitPosition for colinear normals
GetSplitPosition(m, i1, i2) == (Vertex(m, i1) + Vertex(m, i2)) \div 2

IsTooLong(m, maxLength, i1, i2) == Distance2(m, i1, i2) > maxLength * maxLength

\* one test of the filter of splitEdges on edge (i1,i2): st = [mesh, newV, wasSplit]
SplitOne(st, maxLength, i1, i2) ==
  IF HasVertex(st.newV, i1, i2) = FALSE /\ IsTooLong(st.mesh, maxLength, i1, i2)
  THEN [mesh |-> AddVertex(st.mesh, GetSplitPosition(st.mesh, i1, i2)),
        newV |-> InsertInEdge(st.newV, i1, i2, NextVertexIndex(st.mesh)),
        wasSplit |-> TRUE]
  ELSE st

\* a filter that keeps a face only when its first edge was split
SplitLoopFirstEdgeOnly(acc, maxLength, f) ==
  LET t == VertexIndices(acc.mesh, f)
      s0 == [mesh |-> acc.mesh, newV |-> acc.newV, wasSplit |-> FALSE]
      s1 == SplitOne(s0, maxLength, t[1], t[2])
      s2 == SplitOne(s1, maxLength, t[1], t[3])
      s3 == SplitOne(s2, maxLength, t[2], t[3])
  IN  [mesh |-> s3.mesh, newV |-> s3.newV,
       kept |-> IF s1.wasSplit THEN Append(acc.kept, f) ELSE acc.kept]

\* the filter of splitEdges over the committed faces: [mesh, newV, kept]
SplitLoop(acc, maxLength, f) ==
  LET t == VertexIndices(acc.mesh, f)
      s0 == [mesh |-> acc.mesh, newV |-> acc.newV, wasSplit |-> FALSE]
      s1 == SplitOne(s0, maxLength, t[1], t[2])
      s2 == SplitOne(s1, maxLength, t[1], t[3])
      s3 == SplitOne(s2, maxLength, t[2], t[3])
  IN  [mesh |-> s3.mesh, newV |-> s3.newV,
       kept |-> IF s3.wasSplit THEN Append(acc.kept, f) ELSE acc.kept]

\* splitEdges: [mesh, newV, faces]
SplitEdges(m, newV, maxLength, fs) ==
  LET r == Fold(LAMBDA acc, f : SplitLoop(acc, maxLength, f),
                [mesh |-> m, newV |-> newV, kept |-> <<>>], fs.committed)
  IN  [mesh |-> r.mesh, newV |-> r.newV, faces |-> [fs EXCEPT !.committed = r.kept]]

\* forEachFaceExt (faces, fn): the committed faces (fn adds none to the set)
ForEachFaceExt(m, fs) == fs.committed

\* a test of the two-midpoint rows that fans on an equality as well
LowerOrEqualValence(va, vb) == va <= vb

\* the test of the two-midpoint rows (lines 422, 438, 454): the fan starts at
\* the first of the two vertices when its valence is the lower one
LowerValence(va, vb) == va < vb

\* the replacement of face f in triangulate, added to the batch nf
TriangulateFace(m, newV, nf, f) ==
  LET t == VertexIndices(m, f)
      i1 == t[1]
      i2 == t[2]
      i3 == t[3]
      it12 == FindVertex(newV, i1, i2)
      it13 == FindVertex(newV, i1, i3)
      it23 == FindVertex(newV, i2, i3)
      v1 == Valence(m, i1)
      v2 == Valence(m, i2)
      v3 == Valence(m, i3)
      d == NewFacesDeleteFace(nf, f)
  IN  IF it12 = 0 /\ it13 = 0 /\ it23 = 0 THEN nf
      ELSE IF it12 # 0 /\ it13 = 0 /\ it23 = 0
        THEN NewFacesAddFace(NewFacesAddFace(d, i1, it12, i3), i3, it12, i2)
      ELSE IF it12 = 0 /\ it13 # 0 /\ it23 = 0
        THEN NewFacesAddFace(NewFacesAddFace(d, i3, it13, i2), i2, it13, i1)
      ELSE IF it12 = 0 /\ it13 = 0 /\ it23 # 0
        THEN NewFacesAddFace(NewFacesAddFace(d, i2, it23, i1), i1, it23, i3)
      ELSE IF it12 # 0 /\ it13 # 0 /\ it23 = 0
        THEN LET e == NewFacesAddFace(d, it12, it13, i1)
             IN  IF LowerValence(v2, v3)
                 THEN NewFacesAddFace(NewFacesAddFace(e, i2, i3, it13), i2, it13, it12)
                 ELSE NewFacesAddFace(NewFacesAddFace(e, i3, it12, i2), i3, it13, it12)
      ELSE IF it12 # 0 /\ it13 = 0 /\ it23 # 0
        THEN LET e == NewFacesAddFace(d, it23, it12, i2)
             IN  IF LowerValence(v1, v3)
                 THEN NewFacesAddFace(NewFacesAddFace(e, i1, it23, i3), i1, it12, it23)
                 ELSE NewFacesAddFace(NewFacesAddFace(e, i3, i1, it12), i3, it12, it23)
      ELSE IF it12 = 0 /\ it13 # 0 /\ it23 # 0
        THEN LET e == NewFacesAddFace(d, it13, it23, i3)
             IN  IF LowerValence(v1, v2)
                 THEN NewFacesAddFace(NewFacesAddFace(e, i1, i2, it23), i1, it23, it13)
                 ELSE NewFacesAddFace(NewFacesAddFace(e, i2, it13, i1), i2, it23, it13)
      ELSE NewFacesAddFace(NewFacesAddFace(NewFacesAddFace(NewFacesAddFace(d,
             it12, it23, it13), i1, it12, it13), i2, it23, it12), i3, it13, it23)

TriangulateLoop(m, newV, fseq) ==
  Fold(LAMBDA nf, f : TriangulateFace(m, newV, nf, f), EmptyNewFaces, fseq)

\* triangulate up to faces.commit (): [mesh, faces, increasing]
\* triangulate without the commit of its last line
TriangulateNoCommit(m, newV, fs, sel) ==
  LET nf == TriangulateLoop(m, newV, ForEachFaceExt(m, fs))
      ap == ApplyToMesh(m, fs, nf, IterOrder(nf.facesToDelete, sel))
  IN  [mesh |-> ap.mesh, faces |-> ap.faces, increasing |-> ap.ret]

Triangulate(m, newV, fs, sel) ==
  LET nf == TriangulateLoop(m, newV, ForEachFaceExt(m, fs))
      ap == ApplyToMesh(m, fs, nf, IterOrder(nf.facesToDelete, sel))
  IN  [mesh |-> ap.mesh, faces |-> FacesCommit(ap.faces), increasing |-> ap.ret]

\* ------------------------------------------------------------------------
\* action.cpp: smooth and finalize
\* ------------------------------------------------------------------------
Neighbours(m, v) ==
  UNION {Range(VertexIndices(m, AdjacentFaces(m, v)[k])) : k \in 1..Valence(m, v)} \ {v}

\* averagePosition: the centroid of the one-ring neighbours, on the grid
AveragePosition(m, v) ==
  LET ns == SortAsc(Neighbours(m, v))
  IN  IF ns = <<>> THEN Vertex(m, v)
      ELSE SumSeq([k \in 1..Len(ns) |-> Vertex(m, ns[k])]) \div Len(ns)

\* the first pass of smooth: newPosition of vertex i, read from m
NewPosition(m, i) == AveragePosition(m, i)

\* the first pass of smooth (lines 552-602): newPosition of every vertex of
\* vs, read from m; emplace keeps the first value of a key
SmoothFirstPass(m, vs) ==
  Fold(LAMBDA np, i : IF i \in DOMAIN np THEN np ELSE np @@ (i :> NewPosition(m, i)),
       <<>>, vs)

\* the second pass (lines 604-607): the new positions are written, in the
\* order vs
SmoothSecondPass(m, np, vs) ==
  Fold(LAMBDA acc, i : SetVertex(acc, i, np[i]), m, vs)

\* a smooth that writes every new position as soon as it is computed
SmoothInPlace(m, fs) ==
  Fold(LAMBDA acc, i : SetVertex(acc, i, NewPosition(acc, i)), m, ForEachVertex(m, fs))

Smooth(m, fs) ==
  LET vs == ForEachVertex(m, fs)
  IN  SmoothSecondPass(m, SmoothFirstPass(m, vs), vs)

\* finalize: vertex normals and face alignment are outside the model; the
\* face table and the positions are left as they are
Finalize(m, fs) == m

\* ------------------------------------------------------------------------
\* State
\*   mesh      the DynamicMesh the entry points work on
\*   faces     the caller's DynamicFaces
\*   current, scan, collapsed, pred
\*             collapseEdges: its working set, the part of the range-for over
\*             current still to visit, its result so far, its predicate
\*   newV      newVertices of the refine loop
\*   edgeSet   relaxEdges: the edges of edgeSet still to visit
\*   brush     the brush of the running sculpt call
\*   op, stage the running (or last) entry point, and the collapseEdges call
\*             of deleteFaces it is in
\*   pc        the position in the entry point ("idle" between calls,
\*             "abort" after a failed assertion, named by err)
\*   ret       the value the last entry point returned
\*   calls     the number of calls made
\*   prevOp    the entry point that ran before op
\*   entry     what the mesh was like when op was called
\*   nCollapsed, nFlips
\*             the collapseEdge calls of the running entry point by outcome,
\*             flips of the running relaxEdges pass
\*   passes    the passes of the refine loop the running sculpt call began
\* ------------------------------------------------------------------------
VARIABLES mesh, faces, current, scan, collapsed, pred, newV, edgeSet, brush,
          op, stage, pc, err, ret, calls, prevOp, prevBrush, entry, nCollapsed, nFlips,
          passes,
          wmesh, cache, carve, iter

vars == <<mesh, faces, current, scan, collapsed, pred, newV, edgeSet, brush,
          op, stage, pc, err, ret, calls, prevOp, prevBrush, entry, nCollapsed, nFlips,
          passes, wmesh, cache, carve, iter>>

\* the state of the sculpt actions on a DynamicMesh
sculptVars == <<mesh, faces, current, scan, collapsed, pred, newV, edgeSet, brush,
                op, stage, pc, err, ret, calls, prevOp, prevBrush, entry, nCollapsed,
                nFlips, passes>>

\* the state of the carve action on a WingedMesh and of a WingedEdgeIterator
carveVars == <<wmesh, cache, carve>>

toolVars == <<wmesh, cache, carve, iter>>

\* a WingedMesh without vertices, a cache nothing was cached in, no run of
\* carve and no iterator: the state of the tools while a sculpt action runs
NoWingedMesh == [position |-> <<>>, normal |-> <<>>, face |-> <<>>]

EmptyCarveCache == [vertexCache |-> <<>>, faceCache |-> <<>>]

NoRun ==
  [phase |-> "idle", position |-> 0, width |-> 0, ids |-> {}, runs |-> 0,
   first |-> <<>>, seen |-> <<>>, prev |-> <<>>]

NoIterator ==
  [successor |-> <<>>, start |-> 0, edge |-> 0, hasEdge |-> FALSE,
   walk |-> <<>>, nexts |-> 0, returned |-> 0, failed |-> FALSE]

ToolsIdle ==
  /\ wmesh = NoWingedMesh
  /\ cache = EmptyCarveCache
  /\ carve = NoRun
  /\ iter = NoIterator

collapseVars == <<current, scan, collapsed, pred>>

callVars == <<op, stage, brush, calls, prevOp, prevBrush, entry, passes>>

NoBrush ==
  [center |-> 0, radius |-> 0, reduce |-> FALSE, inum |-> 1, iden |-> 1,
   subdivThreshold |-> 0, pull |-> 0]

\* the sum over the live vertices of |valence - 6|
TotalDeviation(m) ==
  SumSeq([k \in 1..NumVertexSlots(m) |->
            IF IsFreeVertex(m, k) THEN 0 ELSE Abs(Valence(m, k) - 6)])

HasPole(m) == \E v \in LiveVertices(m) : Valence(m, v) > 6

\* what an entry point finds when it is called
EntryOf(m) ==
  [consistent |-> CheckConsistency(m),
   numFaces |-> Cardinality(LiveFaces(m)),
   numVertices |-> Cardinality(LiveVertices(m)),
   face |-> m.face,
   deviation |-> TotalDeviation(m),
   hasPole |-> HasPole(m)]

\* the calls of collapseEdge counted by their outcome
NoCollapses == [general |-> 0, valence3 |-> 0, rejected |-> 0]

CollapseKind(m, i1, i2, ok) ==
  IF ~ok THEN "rejected"
  ELSE IF Valence(m, i1) = 3 \/ Valence(m, i2) = 3 THEN "valence3"
  ELSE "general"

\* ------------------------------------------------------------------------
\* Initial meshes
\* ------------------------------------------------------------------------
TetrahedronFaces == << <<1,2,3>>, <<1,4,2>>, <<2,4,3>>, <<3,4,1>> >>

\* apexes 1 and 5 (valence 3), equator 2, 3, 4 (valence 4)
BipyramidFaces ==
  << <<1,2,3>>, <<1,3,4>>, <<1,4,2>>, <<5,3,2>>, <<5,4,3>>, <<5,2,4>> >>

\* apexes 1 and 6, equator 2, 3, 4, 5; every valence is 4
OctahedronFaces ==
  << <<1,2,3>>, <<1,3,4>>, <<1,4,5>>, <<1,5,2>>,
     <<6,3,2>>, <<6,4,3>>, <<6,5,4>>, <<6,2,5>> >>

\* the bipyramid over an n-gon: apexes 1 and n + 2, equator 2 .. n + 1
BipyramidOf(n) ==
  [k \in 1..n |-> <<1, 1 + k, 2 + (k % n)>>] \o
  [k \in 1..n |-> <<n + 2, 2 + (k % n), 1 + k>>]

\* two adjacent vertices of valence 7 (1 and 3) whose common neighbours 2 and
\* 4 are joined by an edge; 2 has valence 5 and 4 has valence 9
TwoPoleFaces ==
  << <<1,2,3>>, <<1,3,4>>, <<1,4,5>>, <<1,5,6>>, <<1,6,7>>, <<1,7,8>>, <<1,8,2>>,
     <<3,2,9>>, <<3,9,10>>, <<3,10,11>>, <<3,11,12>>, <<3,12,4>>,
     <<9,2,4>>, <<4,10,9>>, <<4,11,10>>, <<4,12,11>>,
     <<4,2,8>>, <<8,5,4>>, <<8,6,5>>, <<8,7,6>> >>

PosSpan == 4

\* the first k vertices at one end of the axis and the others at the other
\* end, or one vertex alone at the other end
Positions(n) ==
  {[i \in 1..n |-> IF i <= k THEN 0 ELSE PosSpan] : k \in 1..n}
    \cup {[i \in 1..n |-> IF i = k THEN PosSpan ELSE 0] : k \in {2, n - 1}}

SmallMeshes ==
  {MakeMesh(ps, TetrahedronFaces) : ps \in Positions(4)}
    \cup {MakeMesh(ps, BipyramidFaces) : ps \in Positions(5)}
    \cup {MakeMesh(ps, OctahedronFaces) : ps \in Positions(6)}

InitRest ==
  /\ faces = EmptyFaces
  /\ current = EmptyFaces
  /\ scan = <<>>
  /\ collapsed = FALSE
  /\ pred = PredAll
  /\ newV = EmptyNewVertices
  /\ edgeSet = <<>>
  /\ brush = NoBrush
  /\ op = "none"
  /\ stage = 0
  /\ pc = "idle"
  /\ err = ""
  /\ ret = FALSE
  /\ calls = 0
  /\ prevOp = "none"
  /\ prevBrush = NoBrush
  /\ entry = EntryOf(mesh)
  /\ nCollapsed = NoCollapses
  /\ nFlips = 0
  /\ passes = 0

Init == mesh \in SmallMeshes /\ InitRest /\ ToolsIdle

\* meshes with and without vertices of valence above 6
PoleMeshes ==
  {MakeMesh(ps, OctahedronFaces) : ps \in Positions(6)}
    \cup {MakeMesh(ps, BipyramidOf(6)) : ps \in Positions(8)}
    \cup {MakeMesh(ps, BipyramidOf(7)) : ps \in Positions(9)}
    \cup {MakeMesh(ps, TwoPoleFaces) : ps \in Positions(12)}

InitSmooth == mesh \in PoleMeshes /\ InitRest /\ ToolsIdle

\* ------------------------------------------------------------------------
\* Calling and returning
\* ------------------------------------------------------------------------
CanCall == pc = "idle" /\ calls < MaxCalls

Called(name, b) ==
  /\ op' = name
  /\ prevOp' = op
  /\ prevBrush' = brush
  /\ brush' = b
  /\ calls' = calls + 1
  /\ entry' = EntryOf(mesh)
  /\ nCollapsed' = NoCollapses
  /\ nFlips' = 0
  /\ passes' = 0
  /\ err' = ""

Abort(what) == pc' = "abort" /\ err' = what

\* ------------------------------------------------------------------------
\* collapseEdges (mesh, doCollapse, faces)
\* ------------------------------------------------------------------------
\* lines 860-867: the working set and the head of the first do-iteration
BeginCollapse(fs, pr) ==
  LET cur == FacesInsertAll(EmptyFaces, Indices(fs))
  IN  /\ faces' = FacesInsertAll(fs, Uncommitted(cur))
      /\ current' = FacesCommit(cur)
      /\ scan' = FacesCommit(cur).committed
      /\ collapsed' = FALSE
      /\ pred' = pr
      /\ pc' = "collapseEdges"

\* collapseEdge takes its DynamicFaces by value: what the callee inserted is
\* dropped when it returns
FacesAfterCollapseEdge(caller, callee) == caller

\* the edge of face i the body of the range-for hands to collapseEdge, or <<>>
EdgeToCollapse(m, pr, i) ==
  LET t == VertexIndices(m, i)
  IN  IF DoCollapse(m, pr, t[1], t[2]) THEN <<t[1], t[2]>>
      ELSE IF DoCollapse(m, pr, t[1], t[3]) THEN <<t[1], t[3]>>
      ELSE IF DoCollapse(m, pr, t[2], t[3]) THEN <<t[2], t[3]>>
      ELSE <<>>

\* one iteration of the range-for over current (lines 869-889)
CollapseScan ==
  /\ pc = "collapseEdges"
  /\ scan # <<>>
  /\ LET i == Head(scan)
         e == IF IsFreeFace(mesh, i) THEN <<>> ELSE EdgeToCollapse(mesh, pred, i)
     IN  IF e = <<>>
         THEN /\ scan' = Tail(scan)
              /\ UNCHANGED <<mesh, current, collapsed, pc, err, nCollapsed>>
         ELSE \E sel \in IterSelectors :
                LET r == CollapseEdge(mesh, e[1], e[2], current, sel)
                IN  /\ mesh' = r.mesh
                    /\ IF r.err # ""
                       THEN /\ Abort(r.err)
                            /\ UNCHANGED <<current, scan, collapsed, nCollapsed>>
                       ELSE /\ current' = FacesAfterCollapseEdge(current, r.faces)
                            /\ scan' = Tail(scan)
                            /\ collapsed' = (r.ok \/ collapsed)
                            /\ nCollapsed' = [nCollapsed EXCEPT
                                              ![CollapseKind(mesh, e[1], e[2], r.ok)] = @ + 1]
                            /\ UNCHANGED <<pc, err>>
  /\ UNCHANGED <<faces, pred, newV, edgeSet, callVars, ret, nFlips>>
  /\ UNCHANGED toolVars

\* the while test (line 890): the head of the next do-iteration (lines
\* 866-867) when current has staged indices, else filter, commit and return
\* (lines 892-894)
CollapseWhile ==
  /\ pc = "collapseEdges"
  /\ scan = <<>>
  /\ IF Uncommitted(current) # <<>>
     THEN /\ faces' = FacesInsertAll(faces, Uncommitted(current))
          /\ current' = FacesCommit(current)
          /\ scan' = FacesCommit(current).committed
          /\ pc' = pc
     ELSE /\ faces' = FacesCommit(FacesFilter(faces, LAMBDA f : IsFreeFace(mesh, f) = FALSE))
          /\ pc' = "collapsed"
          /\ UNCHANGED <<current, scan>>
  /\ UNCHANGED <<mesh, collapsed, pred, newV, edgeSet, callVars, err, ret,
                 nCollapsed, nFlips>>
  /\ UNCHANGED toolVars

\* ------------------------------------------------------------------------
\* The entry points of ToolSculptAction
\* ------------------------------------------------------------------------
AllFaces(m) == FacesCommit(FacesInsertAll(EmptyFaces, ForEachFace(m)))

MinEdgeLengthSqr == PredLength(MinEdgeLength * MinEdgeLength, 1)

\* collapseDegeneratedEdges, up to the call of collapseEdgesByLength
CollapseDegeneratedEdgesCall ==
  /\ CanCall
  /\ Called("collapseDegeneratedEdges", NoBrush)
  /\ BeginCollapse(AllFaces(mesh), MinEdgeLengthSqr)
  /\ stage' = 0
  /\ UNCHANGED <<mesh, newV, edgeSet, ret>>
  /\ UNCHANGED toolVars

\* the face sets deleteFaces is called with: every face, or the faces around
\* one vertex
DeleteSets(m) ==
  {AllFaces(m)} \cup
  {FacesCommit(FacesInsertAll(EmptyFaces, AdjacentFaces(m, v))) : v \in LiveVertices(m)}

\* deleteFaces, up to the call of collapseAllEdges
DeleteFacesCall ==
  /\ CanCall
  /\ \E fs \in DeleteSets(mesh) : BeginCollapse(fs, PredAll)
  /\ Called("deleteFaces", NoBrush)
  /\ stage' = 1
  /\ UNCHANGED <<mesh, newV, edgeSet, ret>>
  /\ UNCHANGED toolVars

\* deleteFaces: collapseAllEdges has returned, collapseEdgesByLength is called
DeleteFacesSecond ==
  /\ pc = "collapsed"
  /\ op = "deleteFaces"
  /\ stage = 1
  /\ ret' = collapsed
  /\ stage' = 2
  /\ BeginCollapse(faces, MinEdgeLengthSqr)
  /\ UNCHANGED <<mesh, newV, edgeSet, brush, op, calls, prevOp, prevBrush, entry,
                 err, nCollapsed, nFlips, passes>>
  /\ UNCHANGED toolVars

\* the last lines of deleteFaces, of collapseDegeneratedEdges and of the
\* refine branch of sculpt: finalize, bufferData, return
ReturnCollapsed ==
  /\ pc = "collapsed"
  /\ \/ op = "collapseDegeneratedEdges"
     \/ op = "deleteFaces" /\ stage = 2
     \/ op = "sculpt" /\ ~brush.reduce
  /\ mesh' = Finalize(mesh, faces)
  /\ ret' = IF op = "deleteFaces" THEN (collapsed \/ ret) ELSE collapsed
  /\ pc' = "idle"
  /\ UNCHANGED <<faces, collapseVars, newV, edgeSet, callVars, err, nCollapsed, nFlips>>
  /\ UNCHANGED toolVars

BrushCenters == {0}

BrushRadii == {1, PosSpan}

Brushes ==
  {[center |-> c, radius |-> r, reduce |-> TRUE, inum |-> 1, iden |-> d,
    subdivThreshold |-> 0, pull |-> 0] :
     <<c, r, d>> \in BrushCenters \X BrushRadii \X {1, 2}}
  \cup
  {[center |-> c, radius |-> r, reduce |-> FALSE, inum |-> 1, iden |-> 1,
    subdivThreshold |-> t, pull |-> q] :
     <<c, r, t, q>> \in BrushCenters \X BrushRadii \X {1, 2 * PosSpan} \X {0, 2}}

\* sculpt, up to collapseEdgesByLength (reduce) or to the refine loop
SculptCall ==
  /\ CanCall
  /\ \E b \in Brushes :
       LET fs == GetAffectedFaces(mesh, b)
       IN  /\ Called("sculpt", b)
           /\ IF NumElements(fs) > 0
              THEN IF b.reduce
                   THEN BeginCollapse(fs,
                          PredLength(EdgeLengthSqrSum(mesh, fs) * b.inum,
                                     EdgeLengthCount(fs) * b.iden))
                   ELSE /\ faces' = fs
                        /\ pc' = "extendAndFilterDomain"
                        /\ UNCHANGED collapseVars
              ELSE /\ faces' = fs
                   /\ pc' = "idle"
                   /\ UNCHANGED collapseVars
  /\ stage' = 0
  /\ UNCHANGED <<mesh, newV, edgeSet, ret>>
  /\ UNCHANGED toolVars

\* the reduce branch with the test of isEmpty inverted
ReduceTailInverted ==
  /\ pc = "collapsed"
  /\ op = "sculpt"
  /\ brush.reduce
  /\ IF ~IsEmpty(mesh)
     THEN /\ mesh' = Reset(mesh)
          /\ pc' = "idle"
          /\ UNCHANGED <<faces, err>>
     ELSE /\ faces' = ExtendDomain(mesh, faces, 1)
          /\ mesh' = Finalize(Smooth(mesh, faces'), faces')
          /\ pc' = "idle"
          /\ err' = err
  /\ UNCHANGED <<collapseVars, newV, edgeSet, callVars, ret, nCollapsed, nFlips>>
  /\ UNCHANGED toolVars

\* the reduce branch after collapseEdgesByLength (lines 940-951)
ReduceTail ==
  /\ pc = "collapsed"
  /\ op = "sculpt"
  /\ brush.reduce
  /\ IF IsEmpty(mesh)
     THEN /\ mesh' = Reset(mesh)
          /\ pc' = "idle"
          /\ UNCHANGED <<faces, err>>
     ELSE LET fs == ExtendDomain(mesh, faces, 1)
              m == Finalize(Smooth(mesh, fs), fs)
          IN  /\ faces' = fs
              /\ mesh' = m
              /\ IF CheckConsistency(m) THEN pc' = "idle" /\ err' = err
                 ELSE Abort("sculpt: checkConsistency")
  /\ UNCHANGED <<collapseVars, newV, edgeSet, callVars, ret, nCollapsed, nFlips>>
  /\ UNCHANGED toolVars

\* the refine loop (lines 956-974), one phase a step
RefineExtendAndFilter ==
  /\ pc = "extendAndFilterDomain"
  /\ newV' = EmptyNewVertices
  /\ IF HasUncomitted(faces)
     THEN Abort("extendAndFilterDomain: hasUncomitted") /\ faces' = faces
     ELSE /\ \E sel \in IterSelectors :
               faces' = ExtendAndFilterDomain(mesh, brush, faces, 1, sel)
          /\ pc' = "extendDomainByPoles"
          /\ err' = err
  /\ passes' = passes + 1
  /\ UNCHANGED <<mesh, collapseVars, edgeSet, op, stage, brush, calls, prevOp,
                 prevBrush, entry, ret, nCollapsed, nFlips>>
  /\ UNCHANGED toolVars

RefineExtendByPoles ==
  /\ pc = "extendDomainByPoles"
  /\ IF HasUncomitted(faces)
     THEN Abort("extendDomainByPoles: hasUncomitted") /\ faces' = faces
     ELSE /\ faces' = ExtendDomainByPoles(mesh, faces)
          /\ pc' = "splitEdges"
          /\ err' = err
  /\ UNCHANGED <<mesh, collapseVars, newV, edgeSet, callVars, ret, nCollapsed, nFlips>>
  /\ UNCHANGED toolVars

MaxLength(b) == Max(b.subdivThreshold, 2 * MinEdgeLength)

RefineSplitEdges ==
  /\ pc = "splitEdges"
  /\ IF HasUncomitted(faces)
     THEN Abort("splitEdges: hasUncomitted") /\ UNCHANGED <<mesh, faces, newV>>
     ELSE LET r == SplitEdges(mesh, newV, MaxLength(brush), faces)
          IN  /\ mesh' = r.mesh
              /\ newV' = r.newV
              /\ faces' = r.faces
              /\ pc' = IF DOMAIN r.newV # {} THEN "triangulate" ELSE "extendDomain"
              /\ err' = err
  /\ UNCHANGED <<collapseVars, edgeSet, callVars, ret, nCollapsed, nFlips>>
  /\ UNCHANGED toolVars

RefineTriangulate ==
  /\ pc = "triangulate"
  /\ IF HasUncomitted(faces)
     THEN Abort("triangulate: hasUncomitted") /\ UNCHANGED <<mesh, faces>>
     ELSE \E sel \in IterSelectors :
            LET r == Triangulate(mesh, newV, faces, sel)
            IN  /\ mesh' = r.mesh
                /\ faces' = r.faces
                /\ IF r.increasing THEN pc' = "extendDomain" /\ err' = err
                   ELSE Abort("triangulate: increasing")
  /\ UNCHANGED <<collapseVars, newV, edgeSet, callVars, ret, nCollapsed, nFlips>>
  /\ UNCHANGED toolVars

RefineExtendDomain ==
  /\ pc = "extendDomain"
  /\ IF HasUncomitted(faces)
     THEN Abort("extendDomain: hasUncomitted") /\ faces' = faces
     ELSE /\ faces' = ExtendDomain(mesh, faces, 1)
          /\ pc' = "relaxEdges"
          /\ err' = err
  /\ UNCHANGED <<mesh, collapseVars, newV, edgeSet, callVars, ret, nCollapsed, nFlips>>
  /\ UNCHANGED toolVars

\* smoothMesh, up to the call of relaxEdges
SmoothMeshCall ==
  /\ CanCall
  /\ Called("smoothMesh", NoBrush)
  /\ faces' = AllFaces(mesh)
  /\ pc' = "relaxEdges"
  /\ stage' = 0
  /\ UNCHANGED <<mesh, collapseVars, newV, edgeSet, ret>>
  /\ UNCHANGED toolVars

\* a number that orders the keys of an EdgeSet
EdgeRank(e) == e[1] * (NumVertexSlots(mesh) + 1) + e[2]

\* relaxEdges up to its loop: the assertion and the collection of edgeSet
RelaxBegin ==
  /\ pc = "relaxEdges"
  /\ IF HasUncomitted(faces)
     THEN Abort("relaxEdges: hasUncomitted") /\ edgeSet' = edgeSet
     ELSE /\ \E sel \in IterSelectors :
               edgeSet' = IterOrderBy(CollectEdges(mesh, faces), sel, EdgeRank)
          /\ pc' = "relaxLoop"
          /\ err' = err
  /\ nFlips' = 0
  /\ UNCHANGED <<mesh, faces, collapseVars, newV, callVars, ret, nCollapsed>>
  /\ UNCHANGED toolVars

\* one iteration of the loop of relaxEdges (lines 529-545); edgeSet holds the
\* edges not yet visited, in the order of the iteration
RelaxStep ==
  /\ pc = "relaxLoop"
  /\ edgeSet # <<>>
  /\ LET edge == Head(edgeSet)
         r == FindAdjacent(mesh, edge[1], edge[2])
     IN  /\ edgeSet' = Tail(edgeSet)
         /\ IF ~FindAdjacentAsserts(r)
            THEN Abort("findAdjacent") /\ UNCHANGED <<mesh, nFlips>>
            ELSE IF IsRelaxable(mesh, edge, r.leftVertex, r.rightVertex)
            THEN /\ mesh' = FlipEdge(mesh, edge, r)
                 /\ nFlips' = nFlips + 1
                 /\ IF FlipAsserts(mesh, edge, r) THEN UNCHANGED <<pc, err>>
                    ELSE Abort("relaxEdges: newLeftFace")
            ELSE UNCHANGED <<mesh, nFlips, pc, err>>
  /\ UNCHANGED <<faces, collapseVars, newV, callVars, ret, nCollapsed>>
  /\ UNCHANGED toolVars

\* the while test of the refine loop (line 974)
LoopExitsAfterOnePass(fs, nv) == FALSE

LoopContinues(fs, nv) == NumElements(fs) > 0 /\ DOMAIN nv # {}

\* the loop of relaxEdges is over: smooth, finalize, and what follows them in
\* smoothMesh (return) and in the refine loop (the while test)
SmoothAndFinalize ==
  /\ pc = "relaxLoop"
  /\ edgeSet = <<>>
  /\ mesh' = Finalize(Smooth(mesh, faces), faces)
  /\ pc' = IF op = "smoothMesh" THEN "idle"
           ELSE IF LoopContinues(faces, newV)
           THEN "extendAndFilterDomain"
           ELSE "brushSculpt"
  /\ UNCHANGED <<faces, collapseVars, newV, edgeSet, callVars, err, ret,
                 nCollapsed, nFlips>>
  /\ UNCHANGED toolVars

\* after the refine loop (lines 976-978), up to collapseEdgesByLength
RefineBrushSculpt ==
  /\ pc = "brushSculpt"
  /\ LET fs == GetAffectedFaces(mesh, brush)
     IN  /\ mesh' = BrushSculpt(mesh, brush, fs)
         /\ BeginCollapse(fs, MinEdgeLengthSqr)
  /\ UNCHANGED <<newV, edgeSet, callVars, err, ret, nCollapsed, nFlips>>
  /\ UNCHANGED toolVars

Next ==
  \/ CollapseDegeneratedEdgesCall
  \/ DeleteFacesCall
  \/ DeleteFacesSecond
  \/ SculptCall
  \/ SmoothMeshCall
  \/ CollapseScan
  \/ CollapseWhile
  \/ ReturnCollapsed
  \/ ReduceTail
  \/ RefineExtendAndFilter
  \/ RefineExtendByPoles
  \/ RefineSplitEdges
  \/ RefineTriangulate
  \/ RefineExtendDomain
  \/ RelaxBegin
  \/ RelaxStep
  \/ SmoothAndFinalize
  \/ RefineBrushSculpt

Spec == Init /\ [][Next]_vars

\* two triangles joined by a band of six faces, with an apex on either side:
\* the apexes 1 and 8 are three edges apart
SpindleFaces ==
  <<<<1, 2, 3>>, <<1, 3, 4>>, <<1, 4, 2>>, <<3, 2, 5>>, <<4, 3, 6>>, <<2, 4, 7>>,
    <<3, 5, 6>>, <<4, 6, 7>>, <<2, 7, 5>>, <<8, 6, 5>>, <<8, 7, 6>>, <<8, 5, 7>>>>

\* meshes whose vertices lie at three places of the axis: with the places
\* PosSpan \div 2 apart a face can have one edge above the least maxLength,
\* with the places PosSpan - 1 apart all three; and an octahedron with one
\* long edge, where the faces at that edge and their neighbours are not the
\* whole mesh; the mesh with two poles with one long edge next to them, for
\* the loop of relaxEdges; and the spindle with one long edge at an apex,
\* where the region leaves out the vertices far from that edge
GradedPositions(n) ==
  {[i \in 1..n |-> ((i + r) % 3) * step] :
     <<r, step>> \in (0..2) \X {PosSpan \div 2, PosSpan - 1}}

GradedMeshes ==
  {MakeMesh(ps, TetrahedronFaces) : ps \in GradedPositions(4)}
    \cup {MakeMesh(ps, BipyramidFaces) : ps \in GradedPositions(5)}
    \cup {MakeMesh([i \in 1..6 |-> IF i = 2 THEN 0 ELSE IF i = 3 THEN PosSpan
                                    ELSE PosSpan \div 2], OctahedronFaces)}
    \cup {MakeMesh([i \in 1..12 |-> IF i = 2 THEN 0 ELSE IF i = 4 THEN PosSpan
                                     ELSE PosSpan \div 2], TwoPoleFaces)}
    \cup {MakeMesh([i \in 1..8 |-> IF i = 1 THEN 0 ELSE IF i = 2 THEN PosSpan
                                    ELSE PosSpan \div 2], SpindleFaces)}

InitGraded == mesh \in GradedMeshes /\ InitRest /\ ToolsIdle

\* sculpt alone, on the graded meshes
NextSculpt ==
  \/ SculptCall
  \/ CollapseScan
  \/ CollapseWhile
  \/ ReturnCollapsed
  \/ ReduceTail
  \/ RefineExtendAndFilter
  \/ RefineExtendByPoles
  \/ RefineSplitEdges
  \/ RefineTriangulate
  \/ RefineExtendDomain
  \/ RelaxBegin
  \/ RelaxStep
  \/ SmoothAndFinalize
  \/ RefineBrushSculpt

SpecGraded == InitGraded /\ [][NextSculpt]_vars

\* smoothMesh alone, on meshes with poles
NextSmooth ==
  \/ SmoothMeshCall
  \/ RelaxBegin
  \/ RelaxStep
  \/ SmoothAndFinalize

SpecSmooth == InitSmooth /\ [][NextSmooth]_vars

\* ------------------------------------------------------------------------
\* Properties
\* ------------------------------------------------------------------------
Returned == pc = "idle" /\ calls > 0

NumLiveFaces(m) == Cardinality(LiveFaces(m))

NumLiveVertices(m) == Cardinality(LiveVertices(m))

Successes(n) == n.general + n.valence3

\* C1: an entry point called on a consistent mesh returns with a consistent
\* mesh (manifold, no repeated vertex in a face, every valence at least 3).
C1Consistent == (Returned /\ entry.consistent) => CheckConsistency(mesh)

\* C2: when collapseEdges returns, every index in the committed view of the
\* caller's face set is the index of a non-free face.
C2CommittedLive == pc = "collapsed" => AllLive(mesh, faces)

\* C3: a successful collapseEdge (general case or valence-3 removal) on a
\* consistent mesh leaves no live vertex with valence below 3.
C3NoValenceBelow3 ==
  [][(/\ pc = "collapseEdges"
      /\ CheckConsistency(mesh)
      /\ Successes(nCollapsed') > Successes(nCollapsed))
       => \A v \in LiveVertices(mesh') : Valence(mesh', v) >= 3]_vars

\* collapseEdges on a consistent mesh after a general collapse, a valence-3
\* removal and a rejection
C3Witness ==
  /\ pc = "collapseEdges"
  /\ entry.consistent
  /\ CheckConsistency(mesh)
  /\ nCollapsed.general > 0
  /\ nCollapsed.valence3 > 0
  /\ nCollapsed.rejected > 0

\* C4: every flip of relaxEdges strictly lowers the valence deviation of its
\* four vertices, post is the deviation the four vertices have after the flip,
\* and no step of a relaxEdges pass raises the total deviation of the mesh.
C4FlipLowersDeviation ==
  [][pc = "relaxLoop" =>
       /\ TotalDeviation(mesh') <= TotalDeviation(mesh)
       /\ nFlips' = nFlips + 1 =>
            LET edge == Head(edgeSet)
                r == FindAdjacent(mesh, edge[1], edge[2])
            IN  /\ RelaxPre(mesh', edge, r.leftVertex, r.rightVertex)
                     = RelaxPost(mesh, edge, r.leftVertex, r.rightVertex)
                /\ RelaxPre(mesh', edge, r.leftVertex, r.rightVertex)
                     < RelaxPre(mesh, edge, r.leftVertex, r.rightVertex)]_vars

\* smoothMesh has returned after a relaxEdges pass of two or more flips
C4Witness ==
  Returned /\ op = "smoothMesh" /\ entry.consistent /\ nFlips > 1
    /\ TotalDeviation(mesh) < entry.deviation

\* C5: a second collapseDegeneratedEdges directly after a first one performs
\* no collapse and returns false.
C5Idempotent ==
  (/\ Returned
   /\ calls = 2
   /\ op = "collapseDegeneratedEdges"
   /\ prevOp = "collapseDegeneratedEdges")
    => (ret = FALSE /\ Successes(nCollapsed) = 0)

\* C6: smoothMesh on a consistent mesh keeps the number of live faces and the
\* number of live vertices, at every step and when it returns.
C6CountsPreserved ==
  (op = "smoothMesh" /\ entry.consistent)
    => /\ NumLiveFaces(mesh) = entry.numFaces
       /\ NumLiveVertices(mesh) = entry.numVertices

\* smoothMesh has returned after flipping edges
C6Witness ==
  Returned /\ op = "smoothMesh" /\ entry.consistent /\ nFlips > 0
    /\ mesh.face # entry.face

\* the halvings that bring a length down to maxLength
SplitRounds(length, maxLength) ==
  CHOOSE k \in 0..length :
    /\ length <= maxLength * (2 ^ k)
    /\ \A j \in 0..(k - 1) : length > maxLength * (2 ^ j)

Reducing == op = "sculpt" /\ brush.reduce

\* C8: a reduce-mode sculpt call never has more live faces than it was called
\* with, no step of it adds a face, and each successful collapseEdge removes
\* exactly two.
C8ReduceNeverAddsFaces ==
  [][(op' = "sculpt" /\ brush'.reduce)
       => /\ NumLiveFaces(mesh') <= entry'.numFaces
          /\ Reducing => NumLiveFaces(mesh') <= NumLiveFaces(mesh)
          /\ (Reducing /\ Successes(nCollapsed') > Successes(nCollapsed))
               => NumLiveFaces(mesh') = NumLiveFaces(mesh) - 2]_vars

\* a reduce stroke of intensity 1 that collapsed edges has returned, after a
\* refine stroke on the same sphere
C8Witness ==
  /\ Returned
  /\ Reducing
  /\ brush.inum = brush.iden
  /\ prevOp = "sculpt"
  /\ ~prevBrush.reduce
  /\ prevBrush.center = brush.center
  /\ prevBrush.radius = brush.radius
  /\ Successes(nCollapsed) > 0

C10NoPoleNoFlip ==
  (op = "smoothMesh" /\ ~entry.hasPole /\ pc \in {"relaxLoop", "idle"})
    => (edgeSet = <<>> /\ nFlips = 0 /\ mesh.face = entry.face)

\* smoothMesh has returned on a consistent mesh without poles
C10Witness ==
  Returned /\ op = "smoothMesh" /\ entry.consistent /\ ~entry.hasPole

\* ------------------------------------------------------------------------
\* Properties of triangulate, extendDomain and splitEdges
\* ------------------------------------------------------------------------
\* a face as an oriented triangle: its rotation that begins with its least
\* vertex
Rot(t) ==
  IF t[1] < t[2] /\ t[1] < t[3] THEN t
  ELSE IF t[2] < t[3] THEN <<t[2], t[3], t[1]>>
  ELSE <<t[3], t[1], t[2]>>

OrientedFaces(m) == {Rot(m.face[f]) : f \in LiveFaces(m)}

\* the midpoints newV holds on the edges of face t, 0 where there is none
Midpoints(nv, t) ==
  [m12 |-> FindVertex(nv, t[1], t[2]), m13 |-> FindVertex(nv, t[1], t[3]),
   m23 |-> FindVertex(nv, t[2], t[3])]

NumMidpoints(nv, t) ==
  Cardinality({k \in {makeUiKey(t[1], t[2]), makeUiKey(t[1], t[3]), makeUiKey(t[2], t[3])} :
                 k \in DOMAIN nv})

\* the two triangles of the quad (a, b, c, d) cut from the corner a
Fan(a, b, c, d) == {Rot(<<a, b, c>>), Rot(<<a, c, d>>)}

\* the table of triangulate: the replacements of face t that the table allows,
\* each a set of oriented triangles; m is a record of midpoints, v1, v2, v3
\* are the valences of t[1], t[2], t[3].  The rows (m12, m23) and (m13, m23)
\* cut the corner and fan the quad that remains from its endpoint of lower
\* valence, from either endpoint when the valences are equal.
TableRows(t, m, v1, v2, v3) ==
  LET i1 == t[1]
      i2 == t[2]
      i3 == t[3]
  IN  CASE m.m12 = 0 /\ m.m13 = 0 /\ m.m23 = 0 -> {{Rot(t)}}
        [] m.m12 # 0 /\ m.m13 = 0 /\ m.m23 = 0 ->
             {{Rot(<<i1, m.m12, i3>>), Rot(<<i3, m.m12, i2>>)}}
        [] m.m12 = 0 /\ m.m13 # 0 /\ m.m23 = 0 ->
             {{Rot(<<i3, m.m13, i2>>), Rot(<<i2, m.m13, i1>>)}}
        [] m.m12 = 0 /\ m.m13 = 0 /\ m.m23 # 0 ->
             {{Rot(<<i2, m.m23, i1>>), Rot(<<i1, m.m23, i3>>)}}
        [] m.m12 # 0 /\ m.m13 # 0 /\ m.m23 = 0 ->
             {{Rot(<<m.m12, m.m13, i1>>)} \cup
                (IF v2 < v3
                 THEN {Rot(<<i2, i3, m.m13>>), Rot(<<i2, m.m13, m.m12>>)}
                 ELSE {Rot(<<i3, m.m12, i2>>), Rot(<<i3, m.m13, m.m12>>)})}
        [] m.m12 # 0 /\ m.m13 = 0 /\ m.m23 # 0 ->
             {{Rot(<<m.m23, m.m12, i2>>)} \cup fan :
                fan \in (IF v1 <= v3 THEN {Fan(i1, m.m12, m.m23, i3)} ELSE {})
                          \cup (IF v3 <= v1 THEN {Fan(i3, i1, m.m12, m.m23)} ELSE {})}
        [] m.m12 = 0 /\ m.m13 # 0 /\ m.m23 # 0 ->
             {{Rot(<<m.m13, m.m23, i3>>)} \cup fan :
                fan \in (IF v1 <= v2 THEN {Fan(i1, i2, m.m23, m.m13)} ELSE {})
                          \cup (IF v2 <= v1 THEN {Fan(i2, m.m23, m.m13, i1)} ELSE {})}
        [] OTHER ->
             {{Rot(<<m.m12, m.m23, m.m13>>), Rot(<<i1, m.m12, m.m13>>),
               Rot(<<i2, m.m23, m.m12>>), Rot(<<i3, m.m13, m.m23>>)}}

\* the directed edges of face t with every split edge cut at its midpoint
CutEdge(nv, a, b) ==
  IF HasVertex(nv, a, b) THEN {<<a, FindVertex(nv, a, b)>>, <<FindVertex(nv, a, b), b>>}
  ELSE {<<a, b>>}

CutBoundary(nv, t) ==
  CutEdge(nv, t[1], t[2]) \cup CutEdge(nv, t[2], t[3]) \cup CutEdge(nv, t[3], t[1])

\* the directed edges of a set of triangles that no triangle of the set
\* traverses the other way
Boundary(ts) ==
  LET es == UNION {DirectedEdges(t) : t \in ts}
  IN  {e \in es : <<e[2], e[1]>> \notin es}

\* C11: triangulate replaces every face it visits by the faces the table gives
\* for the midpoints on its edges, with the valences of the mesh before the
\* pass; the replacement has the orientation of the face; every other face
\* stays; the result does not depend on the order in which the batch is
\* applied.
C11TriangulateTable ==
  [][(pc = "triangulate" /\ ~HasUncomitted(faces)) =>
       LET visited == Range(ForEachFaceExt(mesh, faces))
           replaced == {f \in visited : NumMidpoints(newV, mesh.face[f]) > 0}
           rows(f) == TableRows(mesh.face[f], Midpoints(newV, mesh.face[f]),
                                Valence(mesh, mesh.face[f][1]),
                                Valence(mesh, mesh.face[f][2]),
                                Valence(mesh, mesh.face[f][3]))
       IN  /\ \A f \in visited :
                \E row \in rows(f) :
                  /\ row \subseteq OrientedFaces(mesh')
                  /\ Boundary(row) = CutBoundary(newV, mesh.face[f])
           /\ \A f \in LiveFaces(mesh) \ replaced :
                Rot(mesh.face[f]) \in OrientedFaces(mesh')
           /\ NumLiveFaces(mesh') =
                NumLiveFaces(mesh)
                  + SumSeq([k \in 1..Len(faces.committed) |->
                              NumMidpoints(newV, mesh.face[faces.committed[k]])])
           /\ OrientedFaces(mesh') = OrientedFaces(Triangulate(mesh, newV, faces, 1).mesh)]_vars

\* the valence vertex v had when the running entry point was called
ValenceAtEntry(v) ==
  Cardinality({f \in DOMAIN entry.face :
                 entry.face[f] # <<>> /\ Occurrences(entry.face[f], v) > 0})

\* the first pass of a refine stroke has triangulated a face with midpoints on
\* (i1,i2) and (i1,i3) whose vertices i2 and i3 had the same valence
C11Witness ==
  /\ pc = "extendDomain"
  /\ op = "sculpt"
  /\ entry.consistent
  /\ passes = 1
  /\ \E f \in DOMAIN entry.face :
       /\ entry.face[f] # <<>>
       /\ LET t == entry.face[f]
              m == Midpoints(newV, t)
          IN  /\ m.m12 # 0 /\ m.m13 # 0 /\ m.m23 = 0
              /\ ValenceAtEntry(t[2]) = ValenceAtEntry(t[3])
              /\ {Rot(<<m.m12, m.m13, t[1]>>), Rot(<<t[3], m.m12, t[2]>>),
                  Rot(<<t[3], m.m13, m.m12>>)} \subseteq OrientedFaces(mesh)

\* the live faces that share a vertex with a live face of the set
SharingVertex(m, is) ==
  {f \in LiveFaces(m) :
     \E g \in is \cap LiveFaces(m) : Range(m.face[f]) \cap Range(m.face[g]) # {}}

\* a step that runs extendDomain (faces, 1): in the refine loop, and in reduce
\* mode after collapseEdgesByLength
ExtendsDomain ==
  \/ pc = "extendDomain" /\ ~HasUncomitted(faces)
  \/ pc = "collapsed" /\ Reducing /\ ~IsEmpty(mesh)

C13KeptIffSplit ==
  [][(pc = "splitEdges" /\ ~HasUncomitted(faces)) =>
       \A f \in Range(faces.committed) :
         f \in Range(faces'.committed) <=> NumMidpoints(newV', mesh.face[f]) > 0]_vars

\* ------------------------------------------------------------------------
\* Properties of collapseEdges, collapseEdge and deleteValence3Vertex
\* ------------------------------------------------------------------------
\* the edges of face t in the order collapseEdges looks at them
EdgesInOrder(t) == << <<t[1], t[2]>>, <<t[1], t[3]>>, <<t[2], t[3]>> >>

\* edge e satisfies the predicate and collapseEdge (e) would return true
WouldCollapse(m, pr, fs, e) ==
  /\ DoCollapse(m, pr, e[1], e[2])
  /\ CollapseEdge(m, e[1], e[2], fs, 1).ok
  /\ CollapseEdge(m, e[1], e[2], fs, 1).err = ""

\* C14: for every non-free face it scans, collapseEdges performs the first of
\* the edges (i1,i2), (i1,i3), (i2,i3) that satisfies the predicate and whose
\* collapseEdge succeeds, also when an edge before it satisfied the predicate
\* and was rejected.
C14FirstEdgeThatSucceeds ==
  [][(/\ pc = "collapseEdges"
      /\ scan # <<>>
      /\ ~IsFreeFace(mesh, Head(scan))
      /\ pc' # "abort") =>
       LET es == EdgesInOrder(VertexIndices(mesh, Head(scan)))
           can == {k \in 1..3 : WouldCollapse(mesh, pred, current, es[k])}
       IN  can # {} =>
             LET e == es[CHOOSE k \in can : \A j \in can : k <= j]
             IN  /\ Successes(nCollapsed') = Successes(nCollapsed) + 1
                 /\ \E sel \in IterSelectors :
                      mesh' = CollapseEdge(mesh, e[1], e[2], current, sel).mesh]_vars

\* the live faces of m whose index was free, or held another face, in the face
\* table ft
CreatedSince(ft, m) ==
  {f \in LiveFaces(m) : f > Len(ft) \/ ft[f] # m.face[f]}

\* C15: every face a successful collapseEdge creates is in the staging buffer
\* of the working set when collapseEdge returns; when collapseEdges returns,
\* every face created during the call has been scanned and is in the caller's
\* face set.
C15CreatedFacesAreScanned ==
  [][/\ (pc = "collapseEdges" /\ Successes(nCollapsed') > Successes(nCollapsed))
          => \A f \in CreatedSince(mesh.face, mesh') : Contains(Uncommitted(current'), f)
     /\ (/\ pc = "collapseEdges"
         /\ pc' = "collapsed"
         /\ op \in {"collapseDegeneratedEdges", "deleteFaces"})
          => \A f \in CreatedSince(entry.face, mesh) :
               Contains(current.committed, f) /\ Contains(faces'.committed, f)]_vars

\* the faces around vertex v, as oriented triangles
FanOf(m, v) == {Rot(m.face[f]) : f \in Range(AdjacentFaces(m, v))}

\* the vertex of valence 3 that collapseEdge (e) hands to deleteValence3Vertex,
\* 0 when neither end of e has valence 3
Valence3End(m, e) ==
  IF Valence(m, e[1]) = 3 THEN e[1] ELSE IF Valence(m, e[2]) = 3 THEN e[2] ELSE 0

\* C16: deleteValence3Vertex (v), v with exactly three neighbours, returns true
\* exactly when the three neighbours have valence above 3, whatever the stored
\* order of the faces of v; it then frees v, deletes the three faces of v and
\* adds one face on the three neighbours whose edges are the outer edges of the
\* removed fan.
C16Valence3Removal ==
  [][(/\ pc = "collapseEdges"
      /\ scan # <<>>
      /\ ~IsFreeFace(mesh, Head(scan))
      /\ EdgeToCollapse(mesh, pred, Head(scan)) # <<>>) =>
       LET v == Valence3End(mesh, EdgeToCollapse(mesh, pred, Head(scan)))
       IN  (v # 0 /\ Cardinality(Neighbours(mesh, v)) = 3) =>
             /\ (\A n \in Neighbours(mesh, v) : Valence(mesh, n) > 3)
                  <=> nCollapsed'.valence3 = nCollapsed.valence3 + 1
             /\ nCollapsed'.valence3 = nCollapsed.valence3 + 1 =>
                  /\ IsFreeVertex(mesh', v)
                  /\ \E t \in OrientedFaces(mesh') :
                       /\ Range(t) = Neighbours(mesh, v)
                       /\ DirectedEdges(t) = Boundary(FanOf(mesh, v))
                       /\ OrientedFaces(mesh') =
                            (OrientedFaces(mesh) \ FanOf(mesh, v)) \cup {t}]_vars

\* the edge the next step of the range-for hands to collapseEdge, <<>> when it
\* hands none
ScannedEdge ==
  IF pc = "collapseEdges" /\ scan # <<>> /\ ~IsFreeFace(mesh, Head(scan))
  THEN EdgeToCollapse(mesh, pred, Head(scan))
  ELSE <<>>

CommonNeighbours(m, i1, i2) == Neighbours(m, i1) \cap Neighbours(m, i2)

\* the case of the general collapse: a consistent mesh, both ends of the edge
\* with valence above 3, exactly two common neighbours, both of valence above 3
GeneralCase(m, e) ==
  /\ e # <<>>
  /\ CheckConsistency(m)
  /\ Valence(m, e[1]) > 3
  /\ Valence(m, e[2]) > 3
  /\ Cardinality(CommonNeighbours(m, e[1], e[2])) = 2
  /\ \A c \in CommonNeighbours(m, e[1], e[2]) : Valence(m, c) > 3

\* C17: in the general case collapseEdge (i1,i2) succeeds without a failed
\* assertion; afterwards i1 and i2 are free and have no adjacent face, and the
\* new vertex is live with valence v1 + v2 - 4.
C17GeneralCollapse ==
  [][GeneralCase(mesh, ScannedEdge) =>
       LET i1 == ScannedEdge[1]
           i2 == ScannedEdge[2]
           newI == NextVertexIndex(mesh)
       IN  /\ pc' # "abort"
           /\ nCollapsed'.general = nCollapsed.general + 1
           /\ IsFreeVertex(mesh', i1) /\ AdjacentFaces(mesh', i1) = <<>>
           /\ IsFreeVertex(mesh', i2) /\ AdjacentFaces(mesh', i2) = <<>>
           /\ ~IsFreeVertex(mesh', newI)
           /\ Valence(mesh', newI) = Valence(mesh, i1) + Valence(mesh, i2) - 4
           /\ \A f \in LiveFaces(mesh') :
                Occurrences(mesh'.face[f], i1) = 0 /\ Occurrences(mesh'.face[f], i2) = 0]_vars

\* collapseDegeneratedEdges on a consistent mesh has made one general collapse
\* and nothing else: one vertex less, two faces less
C17Witness ==
  /\ pc = "collapseEdges"
  /\ op = "collapseDegeneratedEdges"
  /\ entry.consistent
  /\ nCollapsed = [general |-> 1, valence3 |-> 0, rejected |-> 0]
  /\ NumLiveVertices(mesh) = entry.numVertices - 1
  /\ NumLiveFaces(mesh) = entry.numFaces - 2

\* C18: a collapseEdge that returns false leaves the mesh as it was: no vertex
\* or face added or deleted, no position written, no index freed or reused.
C18RejectedLeavesMesh ==
  [][(pc = "collapseEdges" /\ nCollapsed'.rejected = nCollapsed.rejected + 1)
       => /\ mesh' = mesh
          /\ ScannedEdge # <<>>
          /\ pc' = pc]_vars

\* deleteFaces has had collapseEdge refused twice, on edges whose ends lie
\* apart, and nothing else
C18Witness ==
  /\ pc = "collapseEdges"
  /\ op = "deleteFaces"
  /\ entry.consistent
  /\ nCollapsed = [general |-> 0, valence3 |-> 0, rejected |-> 2]
  /\ \E v \in LiveVertices(mesh) : Vertex(mesh, v) # 0

\* ------------------------------------------------------------------------
\* Properties of relaxEdges and of the mesh after triangulate
\* ------------------------------------------------------------------------
\* the faces of m that traverse the edge from a to b
FacesAlong(m, a, b) == {f \in LiveFaces(m) : <<a, b>> \in DirectedEdges(m.face[f])}

\* every edge of m is shared by exactly two faces, which traverse it in
\* opposite directions
TwoManifold(m) ==
  \A f \in LiveFaces(m) :
    \A e \in DirectedEdges(m.face[f]) :
      /\ Cardinality(FacesAlong(m, e[1], e[2])) = 1
      /\ Cardinality(FacesAlong(m, e[2], e[1])) = 1

\* C19: during relaxEdges on a consistent mesh every examined edge has a left
\* and a right face, no edge is flipped whose opposite vertices are already
\* joined by an edge, and after every step each edge is shared by exactly two
\* faces.
C19FlipKeepsTwoManifold ==
  [][(pc = "relaxLoop" /\ entry.consistent /\ edgeSet # <<>>) =>
       LET r == FindAdjacent(mesh, Head(edgeSet)[1], Head(edgeSet)[2])
       IN  /\ FindAdjacentAsserts(r)
           /\ nFlips' = nFlips + 1 => r.leftVertex \notin Neighbours(mesh, r.rightVertex)
           /\ TwoManifold(mesh')]_vars

\* the live faces of m that still use an edge with a midpoint in nv
UsesSplitEdge(m, nv) ==
  {f \in LiveFaces(m) :
     \E e \in DirectedEdges(m.face[f]) : HasVertex(nv, e[1], e[2])}

\* C20: after triangulate on a two-manifold mesh every edge is again shared
\* by exactly two faces and no live face still uses an edge that has a
\* midpoint in newV, whether or not the face is in the committed set.
C20SplitEdgesReplaced ==
  [][(pc = "triangulate" /\ pc' = "extendDomain" /\ TwoManifold(mesh)) =>
       /\ UsesSplitEdge(mesh', newV) = {}
       /\ TwoManifold(mesh')]_vars

\* ------------------------------------------------------------------------
\* Properties of the refine loop, extendAndFilterDomain and smooth
\* ------------------------------------------------------------------------
\* the vertices splitEdges added in the running iteration
AddedVertices(nv) == {nv[k] : k \in DOMAIN nv}

\* the non-free vertices of m no live face refers to
Orphans(m) == {v \in LiveVertices(m) : Valence(m, v) = 0}

\* C21: when an iteration of the refine loop ends, whether the loop goes on
\* or exits, every vertex splitEdges added in it belongs to a live face and
\* the mesh holds no non-free vertex of valence 0.
C21NoOrphanedVertex ==
  [][(pc = "relaxLoop" /\ pc' \in {"extendAndFilterDomain", "brushSculpt"}
        /\ entry.consistent) =>
       /\ \A v \in AddedVertices(newV) :
            ~IsFreeVertex(mesh', v) /\ Valence(mesh', v) > 0
       /\ Orphans(mesh') = {}]_vars

C21Witness ==
  /\ pc = "extendAndFilterDomain"
  /\ entry.consistent
  /\ Cardinality(AddedVertices(newV)) >= 2
  /\ \A v \in AddedVertices(newV) : Valence(mesh, v) >= 3

\* the input faces of extendAndFilterDomain that intersect the brush sphere
Intersecting == {f \in Range(faces.committed) : Intersects(mesh, brush, f)}

\* the intersecting input faces that are not fully contained in the sphere
Frontier == {f \in Intersecting : ~SphereContains(mesh, brush, f)}

\* a step that runs extendAndFilterDomain (brush, faces, 1) on live faces
FiltersDomain ==
  /\ pc = "extendAndFilterDomain"
  /\ pc' = "extendDomainByPoles"
  /\ AllLive(mesh, faces)

\* C22 as stated: the result is the intersecting input faces plus the faces
\* that share a vertex with a frontier face, and no input face that misses
\* the sphere is in it.
C22NoMissingFaceKept ==
  [][FiltersDomain =>
       /\ Range(faces'.committed) = Intersecting \cup SharingVertex(mesh, Frontier)
       /\ \A f \in Range(faces.committed) \ Intersecting :
            f \notin Range(faces'.committed)]_vars

\* C22: extendAndFilterDomain (brush, faces, 1) leaves in the committed set
\* exactly the input faces that intersect the brush sphere plus the faces
\* that share a vertex with a frontier face; an input face that misses the
\* sphere is in it only when it shares a vertex with a frontier face, and no
\* face is added that neighbours fully contained faces only.
C22FilterAndFrontier ==
  [][FiltersDomain =>
       /\ Range(faces'.committed) = Intersecting \cup SharingVertex(mesh, Frontier)
       /\ faces'.uncommitted = <<>>
       /\ \A f \in Range(faces.committed) \ Intersecting :
            f \in Range(faces'.committed) <=> f \in SharingVertex(mesh, Frontier)
       /\ \A f \in Range(faces'.committed) \ Intersecting :
            f \in SharingVertex(mesh, Frontier)]_vars

\* in a later iteration of the refine loop a face that misses the sphere has
\* come through extendAndFilterDomain, and a face of the mesh has not
C22Witness ==
  /\ pc = "extendDomainByPoles"
  /\ passes >= 2
  /\ entry.consistent
  /\ AllLive(mesh, faces)
  /\ \E f \in Range(faces.committed) : ~Intersects(mesh, brush, f)
  /\ LiveFaces(mesh) \ Range(faces.committed) # {}

\* the vertices smooth visits in the step that runs it in the refine loop and
\* in smoothMesh
SmoothRegion == ForEachVertex(mesh, faces)

\* C23: smooth gives every vertex of the region the position computed from
\* the mesh as it was when smooth was called, whatever the order of the two
\* passes, and changes no face, no adjacency and no position outside the
\* region.
C23SmoothReadsOldPositions ==
  [][(pc = "relaxLoop" /\ edgeSet = <<>> /\ AllLive(mesh, faces)) =>
       /\ \A v \in Range(SmoothRegion) : Vertex(mesh', v) = NewPosition(mesh, v)
       /\ \A s1, s2 \in IterSelectors :
            SmoothSecondPass(mesh, SmoothFirstPass(mesh, IterOrder(SmoothRegion, s1)),
                             IterOrder(SmoothRegion, s2)) = mesh'
       /\ \A v \in LiveVertices(mesh) \ Range(SmoothRegion) :
            Vertex(mesh', v) = Vertex(mesh, v)
       /\ mesh'.face = mesh.face
       /\ mesh'.adjacent = mesh.adjacent]_vars

\* smooth has run in the refine loop on a region that holds neighbouring
\* vertices, one of them added in this iteration, and that leaves a vertex of
\* the mesh out
C23Witness ==
  /\ pc \in {"extendAndFilterDomain", "brushSculpt"}
  /\ passes >= 1
  /\ entry.consistent
  /\ AllLive(mesh, faces)
  /\ LiveVertices(mesh) \ Range(ForEachVertex(mesh, faces)) # {}
  /\ \E v \in AddedVertices(newV) \cap Range(ForEachVertex(mesh, faces)) :
       Neighbours(mesh, v) \cap Range(ForEachVertex(mesh, faces)) # {}

\* the phases of sculpt and smoothMesh that assert an empty staging buffer
\* when they start
StagingPhases ==
  {"extendAndFilterDomain", "extendDomainByPoles", "splitEdges", "triangulate",
   "extendDomain", "relaxEdges"}

\* C24: in sculpt and smoothMesh the staging buffer of the face set is empty
\* whenever one of these phases starts, in every iteration of the refine
\* loop, and when extendDomain starts after collapseEdgesByLength in reduce
\* mode; no assertion on hasUncomitted fails.
C24StagingEmptyAtPhases ==
  /\ (op \in {"sculpt", "smoothMesh"} /\ pc \in StagingPhases) => ~HasUncomitted(faces)
  /\ (op = "sculpt" /\ pc = "collapsed" /\ brush.reduce) => ~HasUncomitted(faces)
  /\ pc = "abort" => err \notin {p \o ": hasUncomitted" : p \in StagingPhases}

\* splitEdges starts in a later iteration of the refine loop, after a
\* triangulate that staged new faces and the extensions that staged their
\* neighbours
C24Witness ==
  /\ op = "sculpt"
  /\ pc = "splitEdges"
  /\ passes >= 2
  /\ Cardinality(LiveFaces(mesh)) > entry.numFaces
  /\ Len(faces.committed) > entry.numFaces

\* ------------------------------------------------------------------------
\* Properties of applyToMesh in triangulate and of the flips of relaxEdges
\* ------------------------------------------------------------------------
\* the face set that holds every live face with a midpoint on one of its edges
FacesWithMidpoint(m, nv) ==
  [committed |-> SortAsc(UsesSplitEdge(m, nv)), uncommitted |-> <<>>]

MaxFaceEdges == 4

MaxNext == MaxFaceEdges + 2

\* the edge reached from e by k steps of the successor within the face
SuccessorTimes(s, e, k) == Fold(LAMBDA acc, i : s[acc], e, [i \in 1..k |-> i])

\* the successors of the n edges of a face lead through all of them and back
FaceCycles(n) ==
  {s \in [1..n -> 1..n] :
     /\ Cardinality({SuccessorTimes(s, 1, k) : k \in 0..(n - 1)}) = n
     /\ SuccessorTimes(s, 1, n) = 1}

\* a face: the successor of each of its edges and the edge face.edge () names
WingedFaces ==
  UNION {{[successor |-> s, edge |-> e] : s \in FaceCycles(n), e \in 1..n} :
           n \in 1..MaxFaceEdges}

\* WingedEdgeIterator (const WingedFace&)
WingedEdgeIterator(f) ==
  [successor |-> f.successor, start |-> f.edge, edge |-> f.edge, hasEdge |-> TRUE,
   walk |-> <<f.edge>>, nexts |-> 0, returned |-> 0, failed |-> FALSE]

\* next () that never notices the return to the start
IteratorNextNoStop(it) ==
  LET e == it.successor[it.edge] IN
  [it EXCEPT !.edge = e,
             !.walk = IF it.hasEdge THEN Append(@, e) ELSE @,
             !.nexts = @ + 1]

\* next (): walk holds the edges the iterator stood on while hasEdge () held
IteratorNext(it) ==
  LET e == it.successor[it.edge]
      stop == e = it.start
  IN  [it EXCEPT !.edge = e,
                 !.hasEdge = IF stop THEN FALSE ELSE @,
                 !.walk = IF it.hasEdge /\ ~stop THEN Append(@, e) ELSE @,
                 !.nexts = @ + 1]

\* edge (): the assertion fails once hasEdge () is false
IteratorEdge(it) ==
  IF it.hasEdge THEN [it EXCEPT !.returned = it.edge]
  ELSE [it EXCEPT !.failed = TRUE]

IterEdge ==
  /\ iter.start # 0
  /\ ~iter.failed
  /\ iter' = IteratorEdge(iter)
  /\ UNCHANGED <<sculptVars, carveVars>>

IterNext ==
  /\ iter.start # 0
  /\ ~iter.failed
  /\ iter.nexts < MaxNext
  /\ iter' = IteratorNext(iter)
  /\ UNCHANGED <<sculptVars, carveVars>>

InitIter ==
  /\ mesh = EmptyMesh
  /\ InitRest
  /\ wmesh = NoWingedMesh
  /\ cache = EmptyCarveCache
  /\ carve = NoRun
  /\ iter \in {WingedEdgeIterator(f) : f \in WingedFaces}

NextIter ==
  \/ IterEdge
  \/ IterNext

SpecIter == InitIter /\ [][NextIter]_vars

\* ------------------------------------------------------------------------
\* C30: the iterator starts at the edge of its face, next () moves to the
\* successor within the face, hasEdge () turns false exactly when the walk is
\* back at the start and never turns true again, so that every edge of the
\* face is yielded exactly once; edge () fails its assertion exactly when it
\* is called after that
\* ------------------------------------------------------------------------
IterEdges == 1..Len(iter.successor)

C30WalkInvariant ==
  /\ iter.nexts = 0 => (iter.edge = iter.start /\ iter.hasEdge)
  /\ Cardinality(Range(iter.walk)) = Len(iter.walk)
  /\ iter.hasEdge => Last(iter.walk) = iter.edge
  /\ ~iter.hasEdge => Range(iter.walk) = IterEdges
  /\ iter.returned # 0 => iter.returned \in Range(iter.walk)
  /\ iter.failed => ~iter.hasEdge

C30WalkStep ==
  /\ iter'.nexts # iter.nexts =>
       /\ iter'.edge = iter.successor[iter.edge]
       /\ iter'.hasEdge = (iter.hasEdge /\ iter'.edge # iter.start)
  /\ iter'.nexts = iter.nexts =>
       /\ iter'.failed = ~iter.hasEdge
       /\ iter.hasEdge => iter'.returned = iter.edge
       /\ iter'.edge = iter.edge /\ iter'.hasEdge = iter.hasEdge

C30IteratorWalksFaceOnce == [](C30WalkInvariant) /\ [][C30WalkStep]_vars

C30Witness ==
  /\ Len(iter.successor) = MaxFaceEdges
  /\ iter.start # 1
  /\ iter.successor # [i \in 1..MaxFaceEdges |-> 1 + (i % MaxFaceEdges)]
  /\ ~iter.hasEdge
  /\ iter.nexts > MaxFaceEdges
  /\ iter.returned # 0
  /\ iter.failed

\* ------------------------------------------------------------------------
\* ActionCarve and CarveCache (carve.cpp) on a WingedMesh
\*   wmesh.position[v], wmesh.normal[v]  the vertices, on one axis; a length
\*                                       of 1 stands for 0.01
\*   wmesh.face[id]                      the three vertices of a face
\*   cache.vertexCache[v]                VertexData, for the cached v only
\*   cache.faceCache[id]                 the cached triangle of a face
\*   carve.first, carve.seen, carve.prev what was cached first, the largest
\*                                       brush delta and the runs so far
\* ------------------------------------------------------------------------
MaxRuns == 3

CarveSpan == 6

\* const float threshold = 0.03f
Threshold == 3

\* CarveBrush brush (width, 0.05f)
BrushHeight == 5

\* CarveBrush::y: the height of the brush at a distance from its centre
BrushY(width, d) ==
  IF d >= width THEN 0 ELSE (BrushHeight * (width - d)) \div width

\* IntersectionUtil::intersects (sphere, mesh, face)
IntersectsSphere(m, poa, width, id) ==
  LET ps == {m.position[m.face[id][k]] : k \in 1..3} IN
  /\ \E p \in ps : p <= poa + width
  /\ \E p \in ps : p >= poa - width

\* WingedMesh::face (id) is not null
HasFace(m, id) == id \in 1..Len(m.face)

\* WingedMesh::intersects (sphere, ids)
MeshIntersects(m, poa, width) ==
  {id \in 1..Len(m.face) : IntersectsSphere(m, poa, width, id)}

VertexData(p, n) == [position |-> p, normal |-> n, carved |-> FALSE, delta |-> 0]

SetDelta(vd, d) == [vd EXCEPT !.delta = d, !.carved = TRUE]

\* std::unordered_map::emplace: an entry that exists is left as it is
Emplace(map, key, value) ==
  IF key \in DOMAIN map THEN map ELSE map @@ (key :> value)

\* CarveCache::Impl::cacheVertex: the cache afterwards and the entry returned
CacheVertex(c, m, v) ==
  IF v \notin DOMAIN c.vertexCache \/ ~c.vertexCache[v].carved
  THEN LET vc == Emplace(c.vertexCache, v, VertexData(m.position[v], m.normal[v]))
       IN  [cache |-> [c EXCEPT !.vertexCache = vc], data |-> vc[v]]
  ELSE [cache |-> c, data |-> c.vertexCache[v]]

\* CarveCache::Impl::cachedVertex does not run into assert (false)
IsCachedVertex(c, v) == v \in DOMAIN c.vertexCache

\* CarveCache::Impl::cacheFace
CacheFace(c, m, id) ==
  IF id \in DOMAIN c.faceCache THEN c
  ELSE [c EXCEPT !.faceCache =
          @ @@ (id :> [k \in 1..3 |-> c.vertexCache[m.face[id][k]].position])]

Delta(poa, width, vd) == BrushY(width, Abs(vd.position - poa))

CarvedVertex(poa, width, vd) == vd.position + vd.normal * Delta(poa, width, vd)

\* carveVertex that stores the delta of this brush, whatever was stored
CarveVertexLatest(poa, width, vd) ==
  LET d == SetDelta(vd, Delta(poa, width, vd))
  IN  [data |-> d, position |-> d.position + d.normal * d.delta]

\* carveVertex: the entry afterwards and the position returned
CarveVertex(poa, width, vd) ==
  LET d == SetDelta(vd, Max(vd.delta, Delta(poa, width, vd)))
  IN  [data |-> d, position |-> d.position + d.normal * d.delta]

\* isSubdividable (mesh, poa, brush, face, cache): the cache afterwards and
\* the answer
IsSubdividable(c, m, poa, width, id) ==
  LET r1 == CacheVertex(c, m, m.face[id][1])
      r2 == CacheVertex(r1.cache, m, m.face[id][2])
      r3 == CacheVertex(r2.cache, m, m.face[id][3])
      v1 == CarvedVertex(poa, width, r1.data)
      v2 == CarvedVertex(poa, width, r2.data)
      v3 == CarvedVertex(poa, width, r3.data)
      maxEdgeLength ==
        Max((v1 - v2) * (v1 - v2), Max((v1 - v3) * (v1 - v3), (v2 - v3) * (v2 - v3)))
  IN  [cache |-> r3.cache, result |-> maxEdgeLength > Threshold * Threshold]

\* ActionSubdivide::run is outside the sources: its edit of the mesh is left
\* out, as a run that changes no face and reports none as affected
ActionSubdivideRun(m, id) == [mesh |-> m, affectedFaces |-> <<>>]

\* checkNextIteration
CheckNextIteration(st, poa, width, id) ==
  IF id \in st.nextIteration THEN st
  ELSE LET r == IsSubdividable(st.cache, st.mesh, poa, width, id) IN
       [st EXCEPT !.cache = r.cache,
                  !.nextIteration =
                    IF r.result /\ IntersectsSphere(st.mesh, poa, width, id)
                    THEN @ \cup {id} ELSE @]

\* one face of thisIteration
SubdivideFace(st, poa, width, id) ==
  IF ~HasFace(st.mesh, id) THEN st
  ELSE LET r == IsSubdividable(st.cache, st.mesh, poa, width, id)
           st1 == [st EXCEPT !.cache = r.cache]
       IN  IF ~r.result THEN st1
           ELSE LET s == ActionSubdivideRun(st1.mesh, id)
                    st2 == [st1 EXCEPT !.mesh = s.mesh]
                IN  Fold(LAMBDA acc, a :
                           IF HasFace(acc.mesh, a)
                           THEN [CheckNextIteration(acc, poa, width, a)
                                   EXCEPT !.ids = @ \cup {a}]
                           ELSE acc,
                         st2, s.affectedFaces)

\* one turn of the while loop
SubdivideIteration(st, poa, width) ==
  LET done == Fold(LAMBDA acc, id : SubdivideFace(acc, poa, width, id),
                   st, SortAsc(st.thisIteration))
  IN  [done EXCEPT !.thisIteration = done.nextIteration, !.nextIteration = {}]

\* subdivideFaces: the loop ends when thisIteration is empty
SubdivideFaces(m, poa, width, ids, c) ==
  Fold(LAMBDA st, round :
         IF st.thisIteration = {} THEN st ELSE SubdivideIteration(st, poa, width),
       [mesh |-> m, cache |-> c, ids |-> ids, thisIteration |-> ids,
        nextIteration |-> {}],
       [round \in 1..(Len(m.face) + 1) |-> round])

\* cacheFaces
CacheFaces(m, ids, c) ==
  Fold(LAMBDA acc, id : IF HasFace(m, id) THEN CacheFace(acc, m, id) ELSE acc,
       c, SortAsc(ids))

\* carveFaces: the set of vertices
CarveVertices(m, ids) ==
  UNION {{m.face[id][k] : k \in 1..3} : id \in {i \in ids : HasFace(m, i)}}

\* carveFaces: the new positions are computed, then written; the normals
\* PAModifyWVertex::writeNormal writes are outside the model
CarveFaces(m, poa, width, ids, c) ==
  LET vs == SortAsc(CarveVertices(m, ids))
      carved == Fold(LAMBDA acc, v :
                       LET r == CarveVertex(poa, width, acc.cache.vertexCache[v]) IN
                       [cache |-> [acc.cache EXCEPT !.vertexCache[v] = r.data],
                        newPositions |-> Append(acc.newPositions, r.position)],
                     [cache |-> c, newPositions |-> <<>>], vs)
  IN  [cache |-> carved.cache,
       mesh |-> [m EXCEPT !.position =
                   [v \in 1..Len(m.position) |->
                      IF v \in Range(vs)
                      THEN carved.newPositions[CHOOSE k \in 1..Len(vs) : vs[k] = v]
                      ELSE m.position[v]]]]

\* what the vertices entering the cache held when they entered it
FirstCached(first, c, m) ==
  [v \in DOMAIN c.vertexCache |->
     IF v \in DOMAIN first THEN first[v]
     ELSE [position |-> m.position[v], normal |-> m.normal[v]]]

\* the largest delta the brushes had for each vertex they carved
LargestSeen(seen, vs, first, poa, width) ==
  [v \in DOMAIN seen \cup vs |->
     IF v \notin vs THEN seen[v]
     ELSE IF v \in DOMAIN seen
     THEN Max(seen[v], BrushY(width, Abs(first[v].position - poa)))
     ELSE BrushY(width, Abs(first[v].position - poa))]

CarveCentres == {0, CarveSpan \div 2, CarveSpan}

CarveWidths == {2, 4}

\* ActionCarve::run up to the return of subdivideFaces
CarveSubdivide ==
  /\ carve.phase = "idle"
  /\ carve.runs < MaxRuns
  /\ \E position \in CarveCentres, width \in CarveWidths :
       LET ids == MeshIntersects(wmesh, position, width)
           st == SubdivideFaces(wmesh, position, width, ids, cache)
       IN  /\ wmesh' = st.mesh
           /\ cache' = st.cache
           /\ carve' = [carve EXCEPT !.phase = "cacheFaces",
                                     !.position = position,
                                     !.width = width,
                                     !.ids = st.ids,
                                     !.runs = @ + 1,
                                     !.first = FirstCached(@, st.cache, wmesh)]
  /\ UNCHANGED <<sculptVars, iter>>

\* ActionCarve::run from cacheFaces on
CarveCacheAndCarve ==
  /\ carve.phase = "cacheFaces"
  /\ IF \A v \in CarveVertices(wmesh, carve.ids) : IsCachedVertex(cache, v)
     THEN LET c == CacheFaces(wmesh, carve.ids, cache)
              r == CarveFaces(wmesh, carve.position, carve.width, carve.ids, c)
          IN  /\ wmesh' = r.mesh
              /\ cache' = r.cache
              /\ carve' = [carve EXCEPT
                             !.phase = "idle",
                             !.seen = LargestSeen(@, CarveVertices(wmesh, carve.ids),
                                                  carve.first, carve.position, carve.width),
                             !.prev = Append(@, <<carve.position, carve.width>>)]
     ELSE /\ carve' = [carve EXCEPT !.phase = "abort"]
          /\ UNCHANGED <<wmesh, cache>>
  /\ UNCHANGED <<sculptVars, iter>>

\* a strip of two faces, the tetrahedron and a fan of four faces
StripFaces == << <<1,2,3>>, <<2,4,3>> >>

FanFaces == << <<1,2,3>>, <<1,3,4>>, <<1,4,5>>, <<1,5,6>> >>

\* the vertices evenly along the axis, or in two groups at its ends
CarvePositions(n) ==
  {[i \in 1..n |-> (k * (i - 1)) % (CarveSpan + 1)] : k \in 1..3}
    \cup {[i \in 1..n |-> IF i <= k THEN 0 ELSE CarveSpan] : k \in 1..(n - 1)}

\* the normals all along the axis, or alternating
CarveNormals(n) ==
  {[i \in 1..n |-> 1], [i \in 1..n |-> IF i % 2 = 1 THEN 1 ELSE -1]}

WingedMeshes ==
  UNION {{[position |-> ps, normal |-> ns, face |-> fs[2]] :
            ps \in CarvePositions(fs[1]), ns \in CarveNormals(fs[1])} :
           fs \in {<<4, StripFaces>>, <<4, TetrahedronFaces>>, <<6, FanFaces>>}}

InitCarve ==
  /\ mesh = EmptyMesh
  /\ InitRest
  /\ wmesh \in WingedMeshes
  /\ cache = EmptyCarveCache
  /\ carve = NoRun
  /\ iter = NoIterator

NextCarve ==
  \/ CarveSubdivide
  \/ CarveCacheAndCarve

SpecCarve == InitCarve /\ [][NextCarve]_vars

\* ------------------------------------------------------------------------
\* C27: over the runs of carve that share one cache, the position written
\* for a vertex is the position it was first cached with plus the normal it
\* was first cached with times the largest delta a brush had for it so far;
\* the stored delta never decreases, and a run moves a vertex carved before
\* only when its delta grows, so not when the run before had the same centre
\* and width
\* ------------------------------------------------------------------------
CarvedBefore(c) == {v \in DOMAIN c.vertexCache : c.vertexCache[v].carved}

C27CarveStep ==
  /\ \A v \in DOMAIN cache.vertexCache :
       /\ v \in DOMAIN cache'.vertexCache
       /\ cache'.vertexCache[v].delta >= cache.vertexCache[v].delta
       /\ cache'.vertexCache[v].position = carve.first[v].position
       /\ cache'.vertexCache[v].normal = carve.first[v].normal
  /\ (carve.phase = "cacheFaces" /\ carve'.phase = "idle") =>
       /\ \A v \in CarveVertices(wmesh, carve.ids) :
            /\ cache'.vertexCache[v].delta = carve'.seen[v]
            /\ wmesh'.position[v] =
                 carve.first[v].position + carve.first[v].normal * carve'.seen[v]
       /\ \A v \in CarvedBefore(cache) :
            /\ wmesh'.position[v] # wmesh.position[v] =>
                 cache'.vertexCache[v].delta > cache.vertexCache[v].delta
            /\ (carve.prev # <<>> /\ Last(carve.prev) = <<carve.position, carve.width>>) =>
                 wmesh'.position[v] = wmesh.position[v]

C27LargestDeltaFromFirstCached == [][C27CarveStep]_vars

\* three runs, the last two with the same centre and width and no stronger
\* for some vertex than the first, which carved it against its normal
C27Witness ==
  /\ carve.phase = "idle"
  /\ Len(carve.prev) = 3
  /\ carve.prev[1] # carve.prev[2]
  /\ carve.prev[2] = carve.prev[3]
  /\ \E v \in CarvedBefore(cache) :
       LET latest == BrushY(carve.prev[3][2], Abs(carve.first[v].position - carve.prev[3][1]))
       IN  /\ carve.first[v].normal = -1
           /\ v \in CarveVertices(wmesh, carve.ids)
           /\ 0 < latest
           /\ latest < cache.vertexCache[v].delta
           /\ wmesh.position[v] = carve.first[v].position - cache.vertexCache[v].delta

\* ------------------------------------------------------------------------
\* C29: cacheVertex returns, for a vertex whose entry is missing or was
\* never carved, an entry with the position and the normal the vertex has
\* in the mesh now, and for a carved vertex the entry it had, unchanged,
\* whatever position and normal the vertex has by now
\* ------------------------------------------------------------------------
MovedTo(m, v, p, n) == [m EXCEPT !.position[v] = p, !.normal[v] = n]

====
